---- MODULE Spec2Model ----
(***************************************************************************)
(* State-machine model of the OPC UA device driver engine                  *)
(* (src/OpcUADriver.js, class CustomDriver, first definition in the file)  *)
(* together with the supervisor adapter that drives it (src/driver.js).    *)
(*                                                                         *)
(* One action models one handler run to its next suspension point: a      *)
(* supervisor request, the completion of an OPC UA library call, an event  *)
(* emitted by the OPC UA library, or a timer.                              *)
(***************************************************************************)
EXTENDS Integers, Sequences, FiniteSets, Bags, TLC

VARIABLES
  endpointUrl,   \* deviceList.list[d].options.endpointUrl.currentValue
  cfgSub,        \* deviceList.list[d].tags[k].subscribed, as the set of subscribed keys
  connections,   \* this.connections[fullDeviceName][deviceUid]
  clients,       \* the OPCUAClient objects created so far, with their connect chain
  chains,        \* the destroyConnect promise chains in flight (a bag)
  wreqs,         \* setTagsValues requests waiting for their session.write calls
  accumBuffer,   \* driver.js accumBuffer
  accumTimer,    \* driver.js accumTimer (TRUE: armed)
  reqLeft,       \* supervisor requests the environment may still send
  faultsLeft,    \* failures and unsolicited events the OPC UA side may still produce
  notifLeft,     \* data-change notifications the OPC UA server may still send
  ev,            \* what the step that led to this state did towards the outside
  browserFlag,   \* this.browserFlag
  browserCount,  \* this.browserCount
  progressId,    \* this.progressId
  browseTrigger, \* deviceList.list[d].options.browseTrigger.currentValue
  deviceTags,    \* deviceList.list[d].tags as populateDevice reads and writes it: tagUid -> tag
  descents,      \* the promise chains of updateTagListFromDevice that have not ended
  progressTimers,\* per device, the armed setTimeout callbacks of sendProgress
  conversion,    \* the last 64-bit value correct64 was called with, and its result
  addressSpace,  \* the address space of the OPC UA server: node -> references
  currentTransID,     \* driver.js server.currentTransID
  supervisorTransIDs  \* the transIDs the supervisor puts in its requests (never changes)

browseVars == <<browserFlag, browserCount, progressId, browseTrigger, deviceTags,
                descents, progressTimers, addressSpace, supervisorTransIDs, conversion>>

vars == <<endpointUrl, cfgSub, connections, clients, chains, wreqs,
          accumBuffer, accumTimer, reqLeft, faultsLeft, notifLeft, ev, browseVars,
          currentTransID>>

(***************************************************************************)
(* Bounds of the model.                                                    *)
(***************************************************************************)
MaxRequests == 3
MaxFaults == 1
MaxNotifications == 1
\* the same budgets for the specification SpecFleet
MaxFleetRequests == 3
MaxFleetFaults == 1
MaxFleetNotifications == 1
\* the budgets of requests and faults for the specification SpecBrowse
MaxBrowseRequests == 3
MaxBrowseFaults == 1
\* budgets of the specification SpecNoUrl
MaxNoUrlRequests == 3
MaxNoUrlFaults == 3
\* budgets of the specification SpecTeardown
MaxTeardownRequests == 2
MaxTeardownFaults == 2
\* budgets of the specification SpecWrite
MaxWriteRequests == 2
MaxWriteFaults == 2
\* budgets of the specification SpecProgress
MaxProgressRequests == 4
MaxProgressFaults == 1

(***************************************************************************)
(* Error texts (src/OpcUADriver.js 22-31).                                 *)
(***************************************************************************)
errDeviceIdNotFoundTxt == "Device ID not found"
errTagNotFoundTxt == "Tag not found"
errTagNotWriteableTxt == "Tag not writeable"
errConfigTxt == "Config error"
errHostCloseConnectTxt == "Host close connection"
errSubscriptionTxt == "Subscription terminated"
errOpcReject == "Opcua server reject connection"
errEmptySession == "Empty session"
errWriteFail == "Write fail"
restartOnChangeTxt == "Restart on change params"
errIdNotFoundTxt == "ID not found"
\* a TypeError raised by the JavaScript runtime and handed on as the rejection
TypeErrorTxt == "TypeError"

(***************************************************************************)
(* JavaScript values.  Every value is a record [t, n, a]: t the type, n    *)
(* the number (or 0/1 for a boolean), a the elements of an array.          *)
(***************************************************************************)
Undefined == [t |-> "undefined", n |-> 0, a |-> <<>>]
JsNull == [t |-> "null", n |-> 0, a |-> <<>>]
Num(x) == [t |-> "number", n |-> x, a |-> <<>>]
Bool(b) == [t |-> "boolean", n |-> IF b THEN 1 ELSE 0, a |-> <<>>]
Arr(s) == [t |-> "array", n |-> 0, a |-> s]
Str(v) == [t |-> "string", n |-> v.n, a |-> v.a]
ErrorObj(e) == [t |-> e, n |-> 0, a |-> <<>>]

ErrTexts == {errTagNotFoundTxt, errTagNotWriteableTxt, errConfigTxt}
IsErrorObj(v) == v.t \in ErrTexts

Truthy(v) ==
  CASE v.t = "number" -> v.n # 0
    [] v.t = "boolean" -> v.n = 1
    [] v.t \in {"undefined", "null"} -> FALSE
    [] OTHER -> TRUE

Nullish(v) == v.t \in {"undefined", "null"}

(***************************************************************************)
(* The configuration the supervisor has stored (deviceList.list).  Tags    *)
(* are named by their key in device.tags.  "bad" is a tag whose options    *)
(* hold no nodeId; "zz" is a name no device has.                           *)
(***************************************************************************)
\* every device uid and endpoint url the model knows; Devices are the uids
\* of deviceList.list (set by Init), Urls the urls a setDevice request of the
\* specification Spec may carry
AllDevices == {"D1", "D2"}
AllUrls == {"U1", "U2"}
\* what getFullDeviceAddress returns for a device without the option endpointUrl
NullUrl == "null"
Devices == DOMAIN endpointUrl
UnknownDevice == "DX"
Urls == {"U1"}
NodeIds == {"n1", "n2"}
NoNode == "undefined"
NoName == "undefined"
NoDevice == "undefined"

DeviceTagKeys(d) == <<"a0", "a1", "s", "ro", "bad">>
AllKeys == {"a0", "a1", "s", "ro", "bad"}
UnknownKey == "zz"

SeqToSet(s) == {s[i] : i \in DOMAIN s}

HasTag(d, k) == d \in Devices /\ k \in SeqToSet(DeviceTagKeys(d))

CfgTag(d, k) ==
  CASE k = "a0" -> [options |-> TRUE, nodeId |-> "n1", arrayIndex |-> 0, type |-> "int", write |-> TRUE]
    [] k = "a1" -> [options |-> TRUE, nodeId |-> "n1", arrayIndex |-> 1, type |-> "bool", write |-> TRUE]
    [] k = "s" -> [options |-> TRUE, nodeId |-> "n2", arrayIndex |-> -1, type |-> "int", write |-> TRUE]
    [] k = "ro" -> [options |-> TRUE, nodeId |-> "n2", arrayIndex |-> -1, type |-> "bool", write |-> FALSE]
    [] OTHER -> [options |-> FALSE, nodeId |-> NoNode, arrayIndex |-> -1, type |-> "int", write |-> TRUE]

\* raw OPC UA variant values a data-change notification of a node may carry
RawValues(n) ==
  IF n = "n1" THEN {Arr(<<Num(0), Num(2)>>), Arr(<<Num(2)>>)} ELSE {Num(2), JsNull}

(***************************************************************************)
(* Type Coercion.                                                          *)
(***************************************************************************)
\* correct64, for a tag whose nodeType is neither Int64 nor UInt64
correct64(tag, value) ==
  IF value.t = "number" \/ (value.t = "array" /\ Len(value.a) > 0 /\ value.a[1].t = "number")
  THEN value
  ELSE Str(value)

getValueByType(tag, value) ==
  IF value.t # "null"
  THEN CASE tag.type = "bool" -> Num(IF Truthy(value) THEN 1 ELSE 0)
         [] OTHER -> correct64(tag, value)
  ELSE Undefined

isIterable(value) == value.t = "array"

getValueByIndex(tag, value) ==
  IF value.t = "undefined" THEN JsNull
  ELSE IF tag.arrayIndex = -1 THEN getValueByType(tag, value)
  ELSE LET values == IF isIterable(value) THEN value.a ELSE <<value>>
       IN IF tag.arrayIndex < Len(values)
          THEN getValueByType(tag, values[tag.arrayIndex + 1])
          ELSE JsNull

getOneSetValue(tag) ==
  CASE tag.type = "bool" -> Bool(Truthy(tag.setValue))
    [] OTHER -> tag.setValue

\* valArray[k] = v on a copy of the array s (JavaScript grows the array; the
\* slots it leaves empty read as undefined)
ArraySet(s, k, v) ==
  [i \in 1..(IF k + 1 > Len(s) THEN k + 1 ELSE Len(s)) |->
     IF i = k + 1 THEN v ELSE IF i <= Len(s) THEN s[i] ELSE Undefined]

(***************************************************************************)
(* Request tags (deviceTagsToArray).  A request item is [name, value];     *)
(* value is the set value of a write and unused by a read.                 *)
(***************************************************************************)
Item(k, v) == [name |-> k, value |-> v]

\* getFullDeviceAddress: device.options.endpointUrl.currentValue
UrlOf(d) == IF d \in Devices THEN endpointUrl[d] ELSE "undefined"

\* the tag item when tag.options.nodeId.currentValue throws: nothing of the try block is assigned
BrokenTagItem(err) ==
  [name |-> NoName, err |-> err, nodeId |-> NoNode, arrayIndex |-> -1, type |-> "undefined",
   endpointUrl |-> "undefined", deviceUid |-> NoDevice,
   subscribed |-> FALSE, setValue |-> Undefined, value |-> Undefined]

\* variant of tagItemOf that does not look at tag.write
tagItemIgnoringWriteFlag(cmd, d, item, subs) ==
  LET key == item.name
      tag == CfgTag(d, key)
  IN IF ~HasTag(d, key) THEN BrokenTagItem(errTagNotFoundTxt)
     ELSE IF ~tag.options THEN BrokenTagItem(errConfigTxt)
     ELSE [name |-> key, err |-> "",
           nodeId |-> tag.nodeId, arrayIndex |-> tag.arrayIndex, type |-> tag.type,
           endpointUrl |-> UrlOf(d), deviceUid |-> d,
           subscribed |-> key \in subs,
           setValue |-> IF cmd = "write" THEN item.value ELSE Undefined,
           value |-> Undefined]

\* one iteration of the loop of deviceTagsToArray
tagItemOf(cmd, d, item, subs) ==
  LET key == item.name
      found == HasTag(d, key)
      tag == CfgTag(d, key)
      err0 == IF ~found THEN errTagNotFoundTxt
              ELSE IF cmd = "write" /\ ~tag.write THEN errTagNotWriteableTxt
              ELSE ""
      threw == ~found \/ ~tag.options
  IN IF threw
     THEN BrokenTagItem(IF err0 # "" THEN err0 ELSE errConfigTxt)
     ELSE IF UrlOf(d) = NullUrl
     THEN [BrokenTagItem(IF err0 # "" THEN err0 ELSE errConfigTxt) EXCEPT
             !.nodeId = tag.nodeId, !.arrayIndex = tag.arrayIndex]
     ELSE [name |-> key, err |-> err0,
           nodeId |-> tag.nodeId, arrayIndex |-> tag.arrayIndex, type |-> tag.type,
           endpointUrl |-> UrlOf(d), deviceUid |-> d,
           subscribed |-> key \in subs,
           setValue |-> IF cmd = "write" THEN item.value ELSE Undefined,
           value |-> Undefined]

RECURSIVE deviceTagsToArray(_, _, _, _, _)
deviceTagsToArray(cmd, d, items, subscribeOnly, subs) ==
  IF items = <<>> THEN <<>>
  ELSE LET rest == deviceTagsToArray(cmd, d, Tail(items), subscribeOnly, subs)
       IN IF subscribeOnly /\ Head(items).name \notin subs
          THEN rest
          ELSE <<tagItemOf(cmd, d, Head(items), subs)>> \o rest

(***************************************************************************)
(* Connection Records.  A record holds its client, session and             *)
(* subscription (named by the client that owns them, 0: none), the tag     *)
(* objects registered so far (objs: the heap of TagRecords), tags (tag     *)
(* name -> object, 0: none) and ns (nodeId -> NodeRecord).  mon counts the *)
(* subscription.monitor calls made for the record, per nodeId.             *)
(***************************************************************************)
EmptyNode == [present |-> FALSE, originalValue |-> Undefined, tags |-> <<>>]

NewRecord(client) ==
  [client |-> client, session |-> 0, subscription |-> 0, objs |-> <<>>,
   tags |-> [k \in AllKeys |-> 0],
   ns |-> [n \in NodeIds |-> EmptyNode],
   mon |-> [n \in NodeIds |-> 0]]

NoRecord == NewRecord(0)
Keys == (AllUrls \cup {NullUrl}) \X AllDevices

\* this.connections[fullDeviceName] ? this.connections[fullDeviceName][deviceUid] : undefined
RecordAt(conns, url, d) == IF <<url, d>> \in Keys THEN conns[<<url, d>>] ELSE NoRecord
Exists(rec) == rec.client # 0
Registered(rec, name) == name \in AllKeys /\ rec.tags[name] # 0

(***************************************************************************)
(* Monitor Registry: addMonitoredTags and checkIfTagsInMonitor.  The       *)
(* state threaded through the loop is [rec, items]: the record and the     *)
(* nodeIds handed to subscription.monitor.                                 *)
(***************************************************************************)
\* variant of addOne that does not look for an existing NodeRecord
addOneBuggy(st, tag) ==
  IF tag.err # "" THEN st
  ELSE LET oid == Len(st.rec.objs) + 1
       IN [rec |-> [st.rec EXCEPT
                      !.objs = Append(@, tag),
                      !.tags[tag.name] = oid,
                      !.ns[tag.nodeId] = [present |-> TRUE, originalValue |-> Undefined, tags |-> <<oid>>],
                      !.mon[tag.nodeId] = @ + 1],
           items |-> st.items \cup {tag.nodeId}]

\* variant of addOne that leaves the value of a tag added to an existing NodeRecord unset
addOneUnseeded(st, tag) ==
  IF tag.err # "" THEN st
  ELSE LET oid == Len(st.rec.objs) + 1
           node == st.rec.ns[tag.nodeId]
       IN IF node.present
          THEN [st EXCEPT
                  !.rec.objs = Append(@, tag),
                  !.rec.tags[tag.name] = oid,
                  !.rec.ns[tag.nodeId].tags = Append(@, oid)]
          ELSE [rec |-> [st.rec EXCEPT
                           !.objs = Append(@, tag),
                           !.tags[tag.name] = oid,
                           !.ns[tag.nodeId] = [present |-> TRUE, originalValue |-> Undefined, tags |-> <<oid>>],
                           !.mon[tag.nodeId] = @ + 1],
                items |-> st.items \cup {tag.nodeId}]

addOne(st, tag) ==
  IF tag.err # "" THEN st
  ELSE LET oid == Len(st.rec.objs) + 1
           node == st.rec.ns[tag.nodeId]
       IN IF node.present
          THEN [st EXCEPT
                  !.rec.objs = Append(@, [tag EXCEPT !.value = getValueByIndex(tag, node.originalValue)]),
                  !.rec.tags[tag.name] = oid,
                  !.rec.ns[tag.nodeId].tags = Append(@, oid)]
          ELSE [rec |-> [st.rec EXCEPT
                           !.objs = Append(@, tag),
                           !.tags[tag.name] = oid,
                           !.ns[tag.nodeId] = [present |-> TRUE, originalValue |-> Undefined, tags |-> <<oid>>],
                           !.mon[tag.nodeId] = @ + 1],
                items |-> st.items \cup {tag.nodeId}]

RECURSIVE addLoop(_, _)
addLoop(st, tags) ==
  IF tags = <<>> THEN st ELSE addLoop(addOne(st, Head(tags)), Tail(tags))

\* returns [rec, items] for the record of (fullDeviceName, deviceUid)
addMonitoredTags(conns, subscription, tags, fullDeviceName, deviceUid) ==
  LET deviceObj == RecordAt(conns, fullDeviceName, deviceUid)
  IN IF subscription = 0 \/ ~Exists(deviceObj)
     THEN [rec |-> deviceObj, items |-> {}]
     ELSE addLoop([rec |-> deviceObj, items |-> {}], tags)

checkIfTagsInMonitor(conns, tags, fullDeviceName, deviceUid) ==
  LET rec == RecordAt(conns, fullDeviceName, deviceUid)
      noMonitoredTags == SelectSeq(tags, LAMBDA tag : ~Registered(rec, tag.name))
  IN IF noMonitoredTags # <<>>
     THEN addMonitoredTags(conns, rec.subscription, noMonitoredTags, fullDeviceName, deviceUid)
     ELSE [rec |-> rec, items |-> {}]

(***************************************************************************)
(* Read and write handlers.                                                *)
(***************************************************************************)
getValue(rec, tag) ==
  IF ~Registered(rec, tag.name) THEN JsNull
  ELSE LET o == rec.objs[rec.tags[tag.name]]
       IN IF ~Nullish(o.value) THEN o.value
          ELSE IF o.err # "" THEN ErrorObj(o.err) ELSE JsNull

\* variant of opcuaGetValues that answers in reverse order
opcuaGetValuesReversed(rec, tags) == [i \in 1..Len(tags) |-> getValue(rec, tags[Len(tags) + 1 - i])]

opcuaGetValues(rec, tags) == [i \in 1..Len(tags) |-> getValue(rec, tags[i])]

\* getSetValue throws a TypeError: no NodeRecord, or an originalValue that cannot be spread
getSetValueThrows(rec, tag) ==
  /\ tag.arrayIndex >= 0
  /\ \/ tag.nodeId \notin NodeIds
     \/ ~rec.ns[tag.nodeId].present
     \/ ~isIterable(rec.ns[tag.nodeId].originalValue)

\* variant of getSetValue that ignores arrayIndex
getSetValueScalar(rec, tag) == getOneSetValue(tag)

getSetValue(rec, tag) ==
  IF tag.arrayIndex < 0 THEN getOneSetValue(tag)
  ELSE Arr(ArraySet(rec.ns[tag.nodeId].originalValue.a, tag.arrayIndex, getOneSetValue(tag)))

\* what the promise of tag i of opcuaSetValues does before it suspends
writeOp(rec, tag, i) ==
  LET op == [kind |-> "write", idx |-> i, error |-> "", name |-> tag.name,
             url |-> tag.endpointUrl, dev |-> tag.deviceUid,
             nodeId |-> tag.nodeId, setValue |-> tag.setValue, value |-> Undefined]
  IN IF tag.err # "" THEN [op EXCEPT !.kind = "reject", !.error = tag.err]
     ELSE IF getSetValueThrows(rec, tag) THEN [op EXCEPT !.kind = "reject", !.error = TypeErrorTxt]
     ELSE [op EXCEPT !.value = getSetValue(rec, tag)]

writeOps(rec, tags) == [i \in 1..Len(tags) |-> writeOp(rec, tags[i], i)]

\* session.write({nodeId, attributeId: AttributeIds.Value, value}) carries no index
\* range: the OPC UA server replaces the whole value it holds for the node
serverWrite(held, op) == [held EXCEPT ![op.nodeId] = op.value]

\* the values the server holds after the session.write calls ops, in the order issued
RECURSIVE serverAfter(_, _)
serverAfter(held, ops) ==
  IF ops = <<>> THEN held ELSE serverAfter(serverWrite(held, Head(ops)), Tail(ops))

(***************************************************************************)
(* What a step does towards the outside: the supervisor request it serves  *)
(* (req, dev, asked, had: whether a Connection Record existed when the     *)
(* request arrived), the answer sent to the supervisor (reply), the        *)
(* session.write calls issued (writes), the bucket handed to               *)
(* subscribeHandler (pump), the asyncTagsValues frames sent (frames), the  *)
(* destroy chain whose finally block ran (finished), the records removed   *)
(* and the clients created, whether a callback threw, whether              *)
(* setConfigHandler was called (setConfig) and what happened to a browse.  *)
(***************************************************************************)
Absent == [t |-> "absent", n |-> 0, a |-> <<>>]
EmptyBucket == [k \in AllKeys |-> Absent]
BucketKeys(b) == {k \in AllKeys : b[k] # Absent}

NoReply == [cmd |-> "", dev |-> "", asked |-> <<>>, error |-> "", values |-> <<>>, active |-> FALSE]
Reply(cmd, d, asked, error, values) ==
  [cmd |-> cmd, dev |-> d, asked |-> asked, error |-> error, values |-> values, active |-> FALSE]
PingReply(d, active) ==
  [cmd |-> "pingDevice", dev |-> d, asked |-> <<>>, error |-> "", values |-> <<>>, active |-> active]

NoChain == [client |-> 0, reason |-> "", phase |-> "", sess |-> 0, rejects |-> FALSE, disc |-> ""]
NoPump == [called |-> FALSE, dev |-> "", values |-> EmptyBucket]
\* what the step did to a browse: started one, or ended one (outcome "populated",
\* "rejected" or "hung") of device dev that used session (0: none) and merged list
NoBrowse == [started |-> FALSE, outcome |-> "", dev |-> "", session |-> 0, list |-> <<>>]

\* the transID of the asyncTagsValues frames of a step that sent none
NoTransID == -1

\* the data change the step delivered: the monitored nodeId and its raw value,
\* the key the callback looked the record up with, and the assignments to
\* TagRecord values it made, in order (obj: the TagRecord written)
NoChange == [node |-> NoNode, raw |-> Undefined, url |-> "", dev |-> "", assigned |-> <<>>]

\* the session.write call that settled in the step: of tag idx of the request
\* (dev, asked), which the Promise.all had (answered: the position of the tag whose
\* rejection settled it) or had not (0) settled before
NoSettle == [dev |-> "", asked |-> <<>>, idx |-> 0, good |-> FALSE, answered |-> 0]

Quiet ==
  [req |-> "", dev |-> "", asked |-> <<>>, had |-> FALSE, reply |-> NoReply,
   writes |-> <<>>, pump |-> NoPump, frames |-> {}, finished |-> NoChain,
   removed |-> {}, created |-> 0, thrown |-> FALSE,
   setConfig |-> FALSE, browse |-> NoBrowse, change |-> NoChange, transID |-> NoTransID,
   progress |-> <<>>, settled |-> NoSettle]

Request(cmd, d, asked, had) ==
  [Quiet EXCEPT !.req = cmd, !.dev = d, !.asked = asked, !.had = had]

(***************************************************************************)
(* The engine's mutable world: w = [conns, clients, chains].               *)
(***************************************************************************)
World == [conns |-> connections, clients |-> clients, chains |-> chains]

Commit(w, e) ==
  /\ connections' = w.conns
  /\ clients' = w.clients
  /\ chains' = w.chains
  /\ ev' = [e EXCEPT
              !.created = Len(w.clients) - Len(clients),
              !.removed = {k \in Keys : Exists(connections[k]) /\ ~Exists(w.conns[k])}]

\* new CustomDriver(deviceList, subscribeHandler, logger): the fourth
\* parameter, logger, is not passed, so this.logger is undefined
loggerIsFunction == FALSE

(***************************************************************************)
(* Connection Manager: createConnect, closeSession, destroyConnect.        *)
(***************************************************************************)
NewClient(d, url, kind, asked, tags) ==
  [dev |-> d, url |-> url, phase |-> "connect", connected |-> FALSE,
   sess |-> "none", sub |-> "none", items |-> {}, disc |-> FALSE,
   promise |-> "pending", waiter |-> [kind |-> kind, asked |-> asked, tags |-> tags]]

\* createConnect up to client.connect(); kind and asked describe who waits for the promise
createConnect(w, tags, d, url, kind, asked) ==
  LET c == Len(w.clients) + 1
  IN [w EXCEPT
        !.clients = Append(@, NewClient(d, url, kind, asked, tags)),
        !.conns[<<url, d>>] = NewRecord(c)]

Chain(c, errTxt, phase, sess, rejects) ==
  [client |-> c, reason |-> errTxt, phase |-> phase, sess |-> sess, rejects |-> rejects, disc |-> ""]

\* variant of destroyConnect that deletes the record before closing anything
destroyEarlyDelete(w, c, errTxt, rejects) ==
  LET cl == w.clients[c]
  IN [w EXCEPT
        !.conns[<<cl.url, cl.dev>>] = NoRecord,
        !.chains = @ (+) SetToBag({Chain(c, errTxt, "disconnecting", 0, rejects)})]

\* destroyConnect up to its first suspension: closeSession either calls
\* session.close() or resolves at once, and then client.disconnect() is called
destroyConnect(w, c, errTxt, rejects) ==
  LET cl == w.clients[c]
      rec == RecordAt(w.conns, cl.url, cl.dev)
      ch == IF ~Exists(rec) \/ rec.session = 0
            THEN Chain(c, errTxt, "disconnecting", 0, rejects)
            ELSE Chain(c, errTxt, "closing", rec.session, rejects)
  IN [w EXCEPT !.chains = @ (+) SetToBag({ch})]

\* session.close() resolved: closeSession resolves and client.disconnect() is called
closeResolved(w, ch) ==
  [w EXCEPT
     !.clients[ch.sess].sess = "closed",
     !.chains = (@ (-) SetToBag({ch})) (+) SetToBag({[ch EXCEPT !.phase = "disconnecting"]})]

\* session.close() rejected: closeSession has no catch, its promise stays pending
closeRejected(w, ch) ==
  [w EXCEPT
     !.chains = (@ (-) SetToBag({ch})) (+) SetToBag({[ch EXCEPT !.phase = "stalled"]})]

\* variant of destroyFinally that removes every record kept under the client's endpointUrl
destroyFinallyWholeUrl(w, ch, ok) ==
  LET cl == w.clients[ch.client]
  IN [w EXCEPT
        !.conns = [k \in Keys |-> IF k[1] = cl.url THEN NoRecord ELSE @[k]],
        !.clients[ch.client].connected = FALSE,
        !.clients[ch.client].disc = ok \/ @,
        !.clients[ch.client].sess = IF ok /\ @ = "open" THEN "closed" ELSE @,
        !.clients[ch.client].promise = IF ch.rejects /\ @ = "pending" THEN "rejected" ELSE @,
        !.chains = @ (-) SetToBag({ch})]

\* the finally block of destroyConnect, after client.disconnect() settled
destroyFinally(w, ch, ok) ==
  LET cl == w.clients[ch.client]
  IN [w EXCEPT
        !.conns[<<cl.url, cl.dev>>] = NoRecord,
        !.clients[ch.client].connected = FALSE,
        !.clients[ch.client].disc = ok \/ @,
        !.clients[ch.client].sess = IF ok /\ @ = "open" THEN "closed" ELSE @,
        !.clients[ch.client].promise = IF ch.rejects /\ @ = "pending" THEN "rejected" ELSE @,
        !.chains = @ (-) SetToBag({ch})]

CmdOf(kind) ==
  CASE kind = "read" -> "getTagsValues"
    [] kind = "write" -> "setTagsValues"
    [] OTHER -> ""

\* what the waiter of the client's createConnect promise does with a rejection
rejectionReply(cl, ch) ==
  IF ch.rejects /\ cl.promise = "pending" /\ cl.waiter.kind \in {"read", "write"}
  THEN Reply(CmdOf(cl.waiter.kind), cl.dev, cl.waiter.asked, ch.reason, <<>>)
  ELSE NoReply

\* updateSubscribe: .catch(err => this.logger(err))
rejectionThrows(cl, ch) ==
  ch.rejects /\ cl.promise = "pending" /\ cl.waiter.kind = "sub" /\ ~loggerIsFunction

(***************************************************************************)
(* Request Engine.  A handler result is [reply, writes, wreq]: the answer  *)
(* (NoReply while the request still waits), the session.write calls        *)
(* issued, and the request whose writes are in flight (at most one):       *)
(* pending holds the positions of its tags whose session.write has not     *)
(* settled, answered the position of the tag whose rejection settled the   *)
(* Promise.all of the request (0: not settled).                            *)
(***************************************************************************)
\* variant of opcuaSetValues that answers with the last rejection of the tags.map pass
opcuaSetValuesLastError(rec, tags, d, asked) ==
  IF ~Exists(rec) \/ rec.session = 0
  THEN [reply |-> Reply("setTagsValues", d, asked, errEmptySession, <<>>),
        writes |-> <<>>, wreq |-> <<>>]
  ELSE LET ops == writeOps(rec, tags)
           issued == SelectSeq(ops, LAMBDA o : o.kind = "write")
           rejected == SelectSeq(ops, LAMBDA o : o.kind = "reject")
           inFlight == {issued[k].idx : k \in DOMAIN issued}
       IN IF rejected # <<>>
          THEN [reply |-> Reply("setTagsValues", d, asked, rejected[Len(rejected)].error, <<>>),
                writes |-> issued,
                wreq |-> IF issued = <<>> THEN <<>>
                         ELSE <<[dev |-> d, asked |-> asked, pending |-> inFlight,
                                 answered |-> rejected[Len(rejected)].idx]>>]
          ELSE [reply |-> NoReply, writes |-> issued,
                wreq |-> <<[dev |-> d, asked |-> asked, pending |-> inFlight, answered |-> 0]>>]

opcuaSetValues(rec, tags, d, asked) ==
  IF ~Exists(rec) \/ rec.session = 0
  THEN [reply |-> Reply("setTagsValues", d, asked, errEmptySession, <<>>),
        writes |-> <<>>, wreq |-> <<>>]
  ELSE LET ops == writeOps(rec, tags)
           issued == SelectSeq(ops, LAMBDA o : o.kind = "write")
           rejected == SelectSeq(ops, LAMBDA o : o.kind = "reject")
           inFlight == {issued[k].idx : k \in DOMAIN issued}
       IN IF rejected # <<>>
          THEN [reply |-> Reply("setTagsValues", d, asked, rejected[1].error, <<>>),
                writes |-> issued,
                wreq |-> IF issued = <<>> THEN <<>>
                         ELSE <<[dev |-> d, asked |-> asked, pending |-> inFlight,
                                 answered |-> rejected[1].idx]>>]
          ELSE [reply |-> NoReply, writes |-> issued,
                wreq |-> <<[dev |-> d, asked |-> asked, pending |-> inFlight, answered |-> 0]>>]

\* handler.call(this, tags, fullDeviceName, deviceUid) and what its caller does with the result
runHandler(kind, rec, tags, d, asked) ==
  CASE kind = "read" ->
         [reply |-> Reply("getTagsValues", d, asked, "", opcuaGetValues(rec, tags)),
          writes |-> <<>>, wreq |-> <<>>]
    [] kind = "write" -> opcuaSetValues(rec, tags, d, asked)
    [] OTHER -> [reply |-> NoReply, writes |-> <<>>, wreq |-> <<>>]

\* the record of (url, d) replaced by st.rec, the monitored nodeIds of st.items
\* added to the subscription they were handed to
withRegistered(w, url, d, st) ==
  IF ~Exists(st.rec) THEN w
  ELSE LET w1 == [w EXCEPT !.conns[<<url, d>>] = st.rec]
       IN IF st.items = {} THEN w1
          ELSE [w1 EXCEPT !.clients[st.rec.subscription].items = @ \cup st.items]

\* variant of opcuaRequest whose write handler also stores the set values in the TagRecords
opcuaRequestWriteThrough(w, tags, kind, d, url, asked) ==
  IF tags = <<>>
  THEN [w |-> w, reply |-> IF kind = "sub" THEN NoReply ELSE Reply(CmdOf(kind), d, asked, "", <<>>),
        writes |-> <<>>, wreq |-> <<>>]
  ELSE IF ~Exists(RecordAt(w.conns, url, d))
       THEN [w |-> createConnect(w, tags, d, url, kind, asked),
             reply |-> NoReply, writes |-> <<>>, wreq |-> <<>>]
       ELSE LET st == checkIfTagsInMonitor(w.conns, tags, url, d)
                h == runHandler(kind, st.rec, tags, d, asked)
                written == [o \in DOMAIN st.rec.objs |->
                              IF kind = "write" /\ \E i \in DOMAIN h.writes : h.writes[i].name = st.rec.objs[o].name
                              THEN [st.rec.objs[o] EXCEPT !.value = getOneSetValue(
                                      CHOOSE t \in SeqToSet(tags) : t.name = st.rec.objs[o].name)]
                              ELSE st.rec.objs[o]]
            IN [w |-> withRegistered(w, url, d, [st EXCEPT !.rec.objs = written]),
                reply |-> h.reply, writes |-> h.writes, wreq |-> h.wreq]

\* opcuaRequest: returns [w, reply, writes, wreq]
opcuaRequest(w, tags, kind, d, url, asked) ==
  IF tags = <<>>
  THEN [w |-> w, reply |-> IF kind = "sub" THEN NoReply ELSE Reply(CmdOf(kind), d, asked, "", <<>>),
        writes |-> <<>>, wreq |-> <<>>]
  ELSE IF ~Exists(RecordAt(w.conns, url, d))
       THEN [w |-> createConnect(w, tags, d, url, kind, asked),
             reply |-> NoReply, writes |-> <<>>, wreq |-> <<>>]
       ELSE LET st == checkIfTagsInMonitor(w.conns, tags, url, d)
                h == runHandler(kind, st.rec, tags, d, asked)
            IN [w |-> withRegistered(w, url, d, st),
                reply |-> h.reply, writes |-> h.writes, wreq |-> h.wreq]

\* getDeviceStatus: returns [w, active]
\* variant of getDeviceStatus that connects whether or not a record exists
getDeviceStatusAlwaysConnect(w, d, url, subs) ==
  LET firstTag == DeviceTagKeys(d)[1]
      asked == <<Item(firstTag, Undefined)>>
      tags == deviceTagsToArray("read", d, asked, FALSE, subs)
  IN [w |-> createConnect(w, tags, d, url, "ping", asked), active |-> FALSE]

getDeviceStatus(w, d, url, subs) ==
  LET firstTag == DeviceTagKeys(d)[1]
      asked == IF Len(DeviceTagKeys(d)) > 0 THEN <<Item(firstTag, Undefined)>> ELSE <<>>
      tags == deviceTagsToArray("read", d, asked, FALSE, subs)
      rec == RecordAt(w.conns, url, d)
  IN IF ~Exists(rec)
     THEN [w |-> createConnect(w, tags, d, url, "ping", asked), active |-> FALSE]
     ELSE [w |-> w, active |-> w.clients[rec.client].connected]

\* restartDevice
restartDevice(w, d, url) ==
  LET rec == RecordAt(w.conns, url, d)
  IN IF Exists(rec) THEN destroyConnect(w, rec.client, restartOnChangeTxt, FALSE) ELSE w

\* updateSubscribe, for one device of deviceList.list
updateSubscribeOne(w, d, url, subs) ==
  LET asked == [i \in DOMAIN DeviceTagKeys(d) |-> Item(DeviceTagKeys(d)[i], Undefined)]
      tags == deviceTagsToArray("read", d, asked, TRUE, subs)
      tagNames == {tags[i].name : i \in DOMAIN tags}
      rec == RecordAt(w.conns, url, d)
      rec1 == [rec EXCEPT !.objs = [o \in DOMAIN rec.objs |->
                 IF rec.tags[rec.objs[o].name] = o
                 THEN [rec.objs[o] EXCEPT !.subscribed = rec.objs[o].name \in tagNames]
                 ELSE rec.objs[o]]]
      w1 == IF Exists(rec) THEN [w EXCEPT !.conns[<<url, d>>] = rec1] ELSE w
  IN opcuaRequest(w1, tags, "sub", d, url, <<>>).w

(***************************************************************************)
(* Change Pump: response (OpcUADriver.js) and subscribeHandler (driver.js). *)
(* The state threaded through the forEach of response is [rec, values].    *)
(***************************************************************************)
\* variant of responseOne that puts every tag of the list into the values map
responseOneAnyTag(st, value, o) ==
  LET tag == st.rec.objs[o]
      v == getValueByIndex(tag, value)
  IN [rec |-> [st.rec EXCEPT
                 !.ns[tag.nodeId].originalValue = value,
                 !.objs[st.rec.tags[tag.name]].value = v],
      values |-> [st.values EXCEPT ![tag.name] = v],
      assigned |-> Append(st.assigned, [obj |-> st.rec.tags[tag.name], value |-> v])]

responseOne(st, value, o) ==
  LET tag == st.rec.objs[o]
      v == getValueByIndex(tag, value)
  IN [rec |-> [st.rec EXCEPT
                 !.ns[tag.nodeId].originalValue = value,
                 !.objs[st.rec.tags[tag.name]].value = v],
      values |-> IF tag.subscribed THEN [st.values EXCEPT ![tag.name] = v] ELSE st.values,
      assigned |-> Append(st.assigned, [obj |-> st.rec.tags[tag.name], value |-> v])]

RECURSIVE responseLoop(_, _, _)
responseLoop(st, value, os) ==
  IF os = <<>> THEN st ELSE responseLoop(responseOne(st, value, Head(os)), value, Tail(os))

\* variant of response that stops after the first tag of the list
responseFirstTagOnly(rec, n, value) ==
  IF Exists(rec) /\ rec.ns[n].present
  THEN responseLoop([rec |-> rec, values |-> EmptyBucket, assigned |-> <<>>], value,
                    SubSeq(rec.ns[n].tags, 1, 1))
  ELSE [rec |-> rec, values |-> EmptyBucket, assigned |-> <<>>]

\* variant of response that stores the raw value although the record or its NodeRecord is gone
responseKeepsRawValue(rec, n, value) ==
  IF Exists(rec) /\ rec.ns[n].present
  THEN responseLoop([rec |-> rec, values |-> EmptyBucket, assigned |-> <<>>], value, rec.ns[n].tags)
  ELSE [rec |-> [rec EXCEPT !.ns[n].originalValue = value], values |-> EmptyBucket, assigned |-> <<>>]

\* response(data, tag) for the monitored item of nodeId n: returns [rec, values, assigned]
response(rec, n, value) ==
  IF Exists(rec) /\ rec.ns[n].present
  THEN responseLoop([rec |-> rec, values |-> EmptyBucket, assigned |-> <<>>], value, rec.ns[n].tags)
  ELSE [rec |-> rec, values |-> EmptyBucket, assigned |-> <<>>]

\* subscribeHandler(dataObj): returns [buffer, timer]
subscribeHandler(buffer, timer, d, values) ==
  IF Cardinality(BucketKeys(values)) = 1
  THEN LET tagname == CHOOSE k \in AllKeys : values[k] # Absent
       IN [buffer |-> [buffer EXCEPT ![d][tagname] = values[tagname]], timer |-> TRUE]
  ELSE [buffer |-> buffer, timer |-> timer]

maxTransID == 65535
Abs(x) == IF x < 0 THEN -x ELSE x

\* the transIDs a supervisor request may carry
TransIDs == supervisorTransIDs

\* values of parseInt(maxTransID * Math.random()) the model draws: both ends of the
\* range and the values around the threshold
Draws(current) ==
  {r \in {0, maxTransID - 1, current - 10, current - 9, current + 9, current + 10} :
     r >= 0 /\ r < maxTransID}
DrawSeqs(current) ==
  {<<a>> : a \in Draws(current)} \cup {<<a, b>> : a \in Draws(current), b \in Draws(current)}

\* variant of the loop of getSubscribTransID that takes the first value drawn
firstDraw(res, current, draws) ==
  IF draws = <<>> THEN NoTransID ELSE Head(draws)

\* the while loop of getSubscribTransID, fed with the values Math.random() gives;
\* NoTransID: the loop has not ended with these draws
RECURSIVE getSubscribTransIDLoop(_, _, _)
getSubscribTransIDLoop(res, current, draws) ==
  IF ~(Abs(res - current) < 10) THEN res
  ELSE IF draws = <<>> THEN NoTransID
  ELSE getSubscribTransIDLoop(Head(draws), current, Tail(draws))

getSubscribTransID(current, draws) == getSubscribTransIDLoop(current, current, draws)

\* the setTimeout callback of subscribeHandler: one asyncTagsValues frame per device
accumFrames(buffer) ==
  {[dev |-> d, values |-> buffer[d]] : d \in {x \in Devices : BucketKeys(buffer[x]) # {}}}

(***************************************************************************)
(* Browser: browseTagsIter and populateDevice.  An address space maps a    *)
(* node to the references session.browse returns for it; a reference of a  *)
(* Variable or Object carries what session.read returns for its node:      *)
(* arrayType, the number of comma-separated parts of value.toString()      *)
(* (parts, 0: no value) and dataType.  A tag name is the path of display   *)
(* names with the array index (-1: none), standing for                     *)
(* "Folder/Temp/_value[i]".                                                *)
(***************************************************************************)
Ref(nodeId, displayName, nodeClass, arrayType, parts, dataType) ==
  [nodeId |-> nodeId, displayName |-> displayName, nodeClass |-> nodeClass,
   arrayType |-> arrayType, parts |-> parts, dataType |-> dataType]

\* DataType codes of node-opcua
DataTypeNull == 0
DataTypeInt32 == 6
DataTypeInt64 == 8
DataTypeUInt64 == 9
DataTypeDouble == 11

(***************************************************************************)
(* 64-bit values.  node-opcua hands an Int64 or UInt64 value over as two   *)
(* 32-bit words [hi, lo].  A natural number that does not fit a machine    *)
(* integer of the model is a sequence of base-100 limbs, least significant *)
(* first and without leading zero limbs (zero is <<>>).  A JavaScript      *)
(* number that is an integer is [neg, mag] with mag such a sequence.  The  *)
(* doubles of the code are exact on integers below 2^53.                   *)
(***************************************************************************)
RECURSIVE BigNorm(_)
BigNorm(a) ==
  IF a = <<>> THEN <<>>
  ELSE IF a[Len(a)] = 0 THEN BigNorm(SubSeq(a, 1, Len(a) - 1)) ELSE a

RECURSIVE BigOfInt(_)
BigOfInt(n) == IF n = 0 THEN <<>> ELSE <<n % 100>> \o BigOfInt(n \div 100)

RECURSIVE BigToInt(_)
BigToInt(a) == IF a = <<>> THEN 0 ELSE a[1] + 100 * BigToInt(Tail(a))

Limb(a, i) == IF i <= Len(a) THEN a[i] ELSE 0

RECURSIVE AddFrom(_, _, _, _)
AddFrom(a, b, i, carry) ==
  IF i > Len(a) /\ i > Len(b)
  THEN BigOfInt(carry)
  ELSE LET s == Limb(a, i) + Limb(b, i) + carry
       IN <<s % 100>> \o AddFrom(a, b, i + 1, s \div 100)

BigAdd(a, b) == BigNorm(AddFrom(a, b, 1, 0))

\* a - b for a >= b
RECURSIVE SubFrom(_, _, _, _)
SubFrom(a, b, i, borrow) ==
  IF i > Len(a)
  THEN <<>>
  ELSE LET s == Limb(a, i) - Limb(b, i) - borrow
       IN <<(s + 100) % 100>> \o SubFrom(a, b, i + 1, IF s < 0 THEN 1 ELSE 0)

BigSub(a, b) == BigNorm(SubFrom(a, b, 1, 0))

\* a * k for a machine integer k
RECURSIVE MulFrom(_, _, _, _)
MulFrom(a, k, i, carry) ==
  IF i > Len(a)
  THEN BigOfInt(carry)
  ELSE LET p == a[i] * k + carry
       IN <<p % 100>> \o MulFrom(a, k, i + 1, p \div 100)

BigMul(a, k) == BigNorm(MulFrom(a, k, 1, 0))

\* quotient q and remainder r of a by the machine integer k
RECURSIVE DivFrom(_, _, _, _)
DivFrom(a, k, i, rem) ==
  IF i = 0
  THEN [q |-> <<>>, r |-> rem]
  ELSE LET cur == rem * 100 + a[i]
           rest == DivFrom(a, k, i - 1, cur % k)
       IN [q |-> rest.q \o <<cur \div k>>, r |-> rest.r]

BigDivMod(a, k) ==
  LET d == DivFrom(a, k, Len(a), 0)
  IN [q |-> BigNorm(d.q), r |-> d.r]

RECURSIVE LessFrom(_, _, _)
LessFrom(a, b, i) ==
  IF i = 0 THEN FALSE
  ELSE IF a[i] # b[i] THEN a[i] < b[i]
  ELSE LessFrom(a, b, i - 1)

BigLess(a, b) == Len(a) < Len(b) \/ (Len(a) = Len(b) /\ LessFrom(a, b, Len(a)))

\* 2^16 * a
Shift16(a) == BigMul(a, 65536)

\* the unsigned 32-bit word with the 16-bit halves h and l, as a JavaScript number
Word(h, l) == [neg |-> FALSE, mag |-> BigAdd(Shift16(BigOfInt(h)), BigOfInt(l))]
Minus(x) == [neg |-> TRUE, mag |-> x.mag]


Two32 == Shift16(Shift16(BigOfInt(1)))
Two53 == BigMul(Two32, 2097152)
Two63 == BigMul(BigMul(Two32, 32768), 65536)
Two64 == BigAdd(Two63, Two63)

\* x >>> 0 (ToUint32) of an integer x
ToUint32(x) ==
  LET low == BigDivMod(x.mag, 65536)
      high == BigDivMod(low.q, 65536)
      m == BigAdd(Shift16(BigOfInt(high.r)), BigOfInt(low.r))
  IN IF x.neg /\ m # <<>> THEN BigSub(Two32, m) ELSE m

\* ~~a (ToInt32) of a non-negative integer a, as a machine integer
ToInt32(a) ==
  LET low == BigDivMod(a, 65536)
      high == BigDivMod(low.q, 65536)
  IN (IF high.r >= 32768 THEN high.r - 65536 ELSE high.r) * 65536 + low.r

\* "" + a for a non-negative integer a below 10^21: the decimal digits, most
\* significant first
RECURSIVE LimbDigits(_, _)
LimbDigits(a, i) ==
  IF i = 0 THEN <<>> ELSE <<a[i] \div 10, a[i] % 10>> \o LimbDigits(a, i - 1)

RECURSIVE StripZeros(_)
StripZeros(ds) == IF Len(ds) > 1 /\ ds[1] = 0 THEN StripZeros(Tail(ds)) ELSE ds

numberToString(a) == IF a = <<>> THEN <<0>> ELSE StripZeros(LimbDigits(a, Len(a)))

\* "000000000000000000".slice(0, n)
zeroSlice(n) ==
  LET count == IF n >= 0 THEN (IF n < 18 THEN n ELSE 18)
               ELSE (IF 18 + n > 0 THEN 18 + n ELSE 0)
  IN [i \in 1..count |-> 0]

\* dlo = dhirem * 0x100000000 + dhi * 0xef85c000 + lo, before dlo %= 0x5af3107a4000;
\* hi and lo are below 2^32, 0x5af4 = 23284, 0xef85c000 = 61317 * 2^16 + 49152
dloOf(hi, lo) ==
  LET q == BigDivMod(hi, 23284)
  IN BigAdd(BigAdd(BigMul(Two32, q.r), BigMul(Word(61317, 49152).mag, ToInt32(q.q))), lo)

\* the part int64HiLoToString and uint64HiLoToString have in common, from
\* let dhi = ~~(hi/0x5af4) on: the digits of the string; 0x5af3107a4000 = 100^7
hiLoDigits(hi, lo) ==
  LET dlo0 == dloOf(hi, lo)
      dhi == ToInt32(BigDivMod(hi, 23284).q)
               + ToInt32(IF Len(dlo0) > 7 THEN SubSeq(dlo0, 8, Len(dlo0)) ELSE <<>>)
      dlo == BigNorm(SubSeq(dlo0, 1, IF Len(dlo0) > 7 THEN 7 ELSE Len(dlo0)))
      slo == numberToString(dlo)
  IN IF dhi # 0
     THEN numberToString(BigOfInt(dhi)) \o zeroSlice(14 - Len(slo)) \o numberToString(dlo)
     ELSE slo

\* variant of negate64 without the carry into the high word
negate64NoCarry(hi, lo) ==
  LET l == ToUint32([neg |-> FALSE, mag |-> BigSub(Two32, lo)])
  IN [hi |-> BigSub(Word(65535, 65535).mag, hi), lo |-> l]

\* lo=(0x100000000-lo)>>>0; hi=0xffffffff-hi+ +(lo===0);
negate64(hi, lo) ==
  LET l == ToUint32([neg |-> FALSE, mag |-> BigSub(Two32, lo)])
  IN [hi |-> BigAdd(BigSub(Word(65535, 65535).mag, hi), BigOfInt(IF l = <<>> THEN 1 ELSE 0)),
      lo |-> l]

\* a decimal string: its sign and its digits
int64HiLoToString(hi, lo) ==
  LET h == ToUint32(hi)
      l == ToUint32(lo)
      negative == ~BigLess(h, BigMul(Shift16(BigOfInt(1)), 32768))
      w == IF negative THEN negate64(h, l) ELSE [hi |-> h, lo |-> l]
  IN [sign |-> IF negative THEN "-" ELSE "", digits |-> hiLoDigits(w.hi, w.lo)]

uint64HiLoToString(hi, lo) ==
  [sign |-> "", digits |-> hiLoDigits(ToUint32(hi), ToUint32(lo))]

\* correct64 for a tag of nodeType Int64 or UInt64 and the value [hi, lo]
correct64Words(nodeType, hi, lo) ==
  IF nodeType = DataTypeInt64
  THEN int64HiLoToString(hi, lo)
  ELSE uint64HiLoToString(hi, lo)

NoConversion == [nodeType |-> DataTypeNull, hi |-> Word(0, 0), lo |-> Word(0, 0),
                 text |-> [sign |-> "", digits |-> <<>>]]

\* the words a value arrives with: the ends of the range, the sign bit, the
\* multiples of 0x5af4 and the words of 10^14 - 1 and 10^14 (0x5af3, 0x107a4000)
Words ==
  {Word(0, 0), Word(0, 1), Word(0, 23283), Word(0, 23284), Word(0, 65535), Word(1, 0),
   Word(4218, 16383), Word(4218, 16384), Word(32767, 65535), Word(32768, 0),
   Word(32768, 1), Word(65535, 65534), Word(65535, 65535), Minus(Word(0, 1))}

getTagType(nodeType) ==
  CASE nodeType = DataTypeInt32 -> "int"
    [] nodeType = DataTypeDouble -> "float"
    [] OTHER -> "string"

TagName(path, index) == [path |-> path, index |-> index]

\* the entries pushed for one reference after its session.read resolved
browseEntries(ref, path) ==
  LET isArray == ref.arrayType = 1
      arraySize == IF ref.parts > 0 THEN ref.parts ELSE 1
      tagsCount == IF isArray THEN arraySize ELSE 1
  IN [i \in 1..tagsCount |->
        [name |-> TagName(path, IF isArray THEN i - 1 ELSE -1),
         nodeId |-> ref.nodeId,
         type |-> ref.dataType,
         arrayIndex |-> IF isArray THEN i - 1 ELSE -1]]

\* browseTagsIter over the references refs of one node: for each reference the
\* read (unless session.read rejects: failedReads), then the descent into it
RECURSIVE browseTagsIter(_, _, _, _)
browseTagsIter(space, refs, folder, failedReads) ==
  IF refs = <<>> THEN <<>>
  ELSE LET ref == Head(refs)
           path == Append(folder, ref.displayName)
           own == IF ref.nodeClass \in {"Variable", "Object"} /\ ref.nodeId \notin failedReads
                  THEN browseEntries(ref, path)
                  ELSE <<>>
       IN own \o browseTagsIter(space, space[ref.nodeId], path, failedReads)
              \o browseTagsIter(space, Tail(refs), folder, failedReads)

\* this.browserCount after the descent: one increment per resolved read
RECURSIVE readCount(_, _, _)
readCount(space, refs, failedReads) ==
  IF refs = <<>> THEN 0
  ELSE LET ref == Head(refs)
       IN (IF ref.nodeClass \in {"Variable", "Object"} /\ ref.nodeId \notin failedReads THEN 1 ELSE 0)
          + readCount(space, space[ref.nodeId], failedReads)
          + readCount(space, Tail(refs), failedReads)

\* the nodes a descent reads
RECURSIVE readNodes(_, _)
readNodes(space, refs) ==
  IF refs = <<>> THEN {}
  ELSE LET ref == Head(refs)
       IN (IF ref.nodeClass \in {"Variable", "Object"} THEN {ref.nodeId} ELSE {})
          \cup readNodes(space, space[ref.nodeId]) \cup readNodes(space, Tail(refs))

\* Object.keys(device.tags): integer keys in ascending order
RECURSIVE SortedKeys(_)
SortedKeys(S) ==
  IF S = {} THEN <<>>
  ELSE LET m == CHOOSE x \in S : \A y \in S : x <= y
       IN <<m>> \o SortedKeys(S \ {m})

MaxOf(S) == IF S = {} THEN 0 ELSE CHOOSE x \in S : \A y \in S : y <= x

NoTags == [u \in {} |-> 0]

\* tagmap.findIndex(tag => tag[1] === name), 0: not found
findIndex(tagmap, name) ==
  LET hits == {i \in DOMAIN tagmap : tagmap[i][2] = name}
  IN IF hits = {} THEN 0 ELSE CHOOSE i \in hits : \A j \in hits : i <= j

\* one iteration of browseTags.forEach in populateDevice; st = [tags, tagmap, maxTagId,
\* uids], a tagmap entry is <<tagUid, name>> with tagUid 0 standing for ''; uids
\* records the tagUid each iteration wrote to
populateOne(st, browseTag) ==
  LET idx == findIndex(st.tagmap, browseTag.name)
      old == IF idx > 0 THEN st.tagmap[idx][1] ELSE 0
      fresh == old = 0
      tagUid == IF fresh THEN st.maxTagId + 1 ELSE old
      seed == [name |-> browseTag.name, nodeId |-> "", nodeType |-> browseTag.type,
               arrayIndex |-> browseTag.arrayIndex, type |-> "",
               address |-> tagUid, read |-> TRUE, write |-> TRUE]
      base == IF fresh THEN seed ELSE st.tags[tagUid]
      tag == [base EXCEPT !.nodeId = browseTag.nodeId, !.nodeType = browseTag.type,
                          !.arrayIndex = browseTag.arrayIndex, !.type = getTagType(browseTag.type)]
  IN [tags |-> [u \in DOMAIN st.tags \cup {tagUid} |-> IF u = tagUid THEN tag ELSE st.tags[u]],
      tagmap |-> IF idx > 0 THEN [st.tagmap EXCEPT ![idx][1] = 0] ELSE st.tagmap,
      maxTagId |-> IF fresh THEN tagUid ELSE st.maxTagId,
      uids |-> Append(st.uids, tagUid)]

RECURSIVE populateLoop(_, _)
populateLoop(st, browseTags) ==
  IF browseTags = <<>> THEN st ELSE populateLoop(populateOne(st, Head(browseTags)), Tail(browseTags))

\* populateDevice up to the end of browseTags.forEach
populateMerge(tags, browseTags) ==
  LET keys == SortedKeys(DOMAIN tags)
      tagmap == [i \in DOMAIN keys |-> <<keys[i], tags[keys[i]].name>>]
  IN populateLoop([tags |-> tags, tagmap |-> tagmap, maxTagId |-> MaxOf(DOMAIN tags),
                   uids |-> <<>>], browseTags)

\* populateDevice: device.tags after the merge of browseTags (an array, so truthy)
populateDevice(tags, browseTags) ==
  LET st == populateMerge(tags, browseTags)
      deleted == {st.tagmap[i][1] : i \in DOMAIN st.tagmap} \ {0}
  IN [u \in DOMAIN st.tags \ deleted |-> st.tags[u]]

(***************************************************************************)
(* The promise chain of updateTagListFromDevice.  A descent is [dev,        *)
(* client, stage, session]: stage "connecting" waits for the createConnect *)
(* promise of client, "descending" has called browseTagsIter(session),     *)
(* "hung" will never settle.  b = [flag, count, pid, trigger, tags,        *)
(* descents, timers] is the browse state threaded through the callbacks.   *)
(***************************************************************************)
BrowseState ==
  [flag |-> browserFlag, count |-> browserCount, pid |-> progressId,
   trigger |-> browseTrigger, tags |-> deviceTags, descents |-> descents,
   timers |-> progressTimers]

SetBrowse(b) ==
  /\ browserFlag' = b.flag
  /\ browserCount' = b.count
  /\ progressId' = b.pid
  /\ browseTrigger' = b.trigger
  /\ deviceTags' = b.tags
  /\ descents' = b.descents
  /\ progressTimers' = b.timers
  /\ conversion' = conversion
  /\ addressSpace' = addressSpace
  /\ supervisorTransIDs' = supervisorTransIDs

\* the object sendProgress hands to this.progressHandler
ProgressFrame(d, count, pid, done) == [dev |-> d, count |-> count, pid |-> pid, done |-> done]

\* sendProgress(dataObj): the frame it hands over, and the timer it arms while
\* browserFlag is set (armed: one more callback is waiting than before the call)
sendProgress(b, d) ==
  [frame |-> ProgressFrame(d, b.count, b.pid, ~b.flag),
   b |-> IF b.flag THEN [b EXCEPT !.timers[d] = @ + 1] ELSE b]

Descent(d, c, stage, session) == [dev |-> d, client |-> c, stage |-> stage, session |-> session]

RemoveAt(q, i) == [j \in 1..(Len(q) - 1) |-> IF j < i THEN q[j] ELSE q[j + 1]]

\* the descent that waits for the createConnect promise of client c (0: none)
descentOf(descs, c) ==
  LET hits == {i \in DOMAIN descs : descs[i].client = c /\ descs[i].stage = "connecting"}
  IN IF hits = {} THEN 0 ELSE CHOOSE i \in hits : TRUE

\* .then(browseTags => this.populateDevice(dataObj, browseTags)).then(_ => {browserFlag = false; ...})
browseResolved(b, i, browseTags, reads) ==
  LET d == b.descents[i].dev
  IN [b EXCEPT
        !.tags[d] = populateDevice(@, browseTags),
        !.trigger[d] = "Stop",
        !.count = @ + reads,
        !.flag = FALSE,
        !.descents = RemoveAt(@, i)]

\* .catch(_ => {browserFlag = false; resolve()})
browseRejected(b, i) == [b EXCEPT !.flag = FALSE, !.descents = RemoveAt(@, i)]

\* .then(_ => this.browseTagsIter(this.connections[fullDeviceName][deviceUid]?.session)):
\* without a session browseTagsIter resolves with the empty list at once
browseContinue(b, i, session) ==
  IF session = 0
  THEN browseResolved(b, i, <<>>, 0)
  ELSE [b EXCEPT !.descents[i].stage = "descending", !.descents[i].session = session]

\* variant of updateTagListFromDevice that does not look at browserFlag
updateTagListIgnoringFlag(w, b, d, url) ==
  LET session == RecordAt(w.conns, url, d).session
      w1 == IF session # 0 THEN w ELSE createConnect(w, <<>>, d, url, "browse", <<>>)
      desc == IF session # 0
              THEN Descent(d, 0, "descending", session)
              ELSE Descent(d, Len(w1.clients), "connecting", 0)
  IN [w |-> w1,
      b |-> [sendProgress([b EXCEPT !.count = 0, !.flag = TRUE, !.pid = @ + 1], d).b
               EXCEPT !.descents = Append(@, desc)],
      started |-> TRUE, progress |-> TRUE]

\* updateTagListFromDevice up to its first suspension: returns [w, b, started,
\* progress], progress: the promise resolves with the progress snapshot
updateTagListFromDevice(w, b, d, url) ==
  IF d \notin Devices \/ b.trigger[d] # "Start"
  THEN [w |-> w, b |-> b, started |-> FALSE, progress |-> FALSE]
  ELSE IF ~b.flag
  THEN LET session == RecordAt(w.conns, url, d).session
           w1 == IF session # 0 THEN w ELSE createConnect(w, <<>>, d, url, "browse", <<>>)
           desc == IF session # 0
                   THEN Descent(d, 0, "descending", session)
                   ELSE Descent(d, Len(w1.clients), "connecting", 0)
       IN [w |-> w1,
           b |-> [sendProgress([b EXCEPT !.count = 0, !.flag = TRUE, !.pid = @ + 1], d).b
                    EXCEPT !.descents = Append(@, desc)],
           started |-> TRUE, progress |-> TRUE]
  ELSE [w |-> w, b |-> b, started |-> FALSE, progress |-> TRUE]

(***************************************************************************)
(* Inputs of the supervisor and of the OPC UA server.                      *)
(***************************************************************************)
ReadLists == {<<"a0">>, <<"a0", "a1">>, <<"s", UnknownKey, "bad">>, <<>>}
WriteLists == {<<Item("a1", Num(2)), Item("s", Num(0))>>, <<Item("ro", Num(2))>>}
SubscribeSets == {{"a0", "a1"}, {"s"}}

ReadRequests == (Devices \X ReadLists) \cup {<<UnknownDevice, <<"a0", "a1">>>>}
WriteRequests == (Devices \X WriteLists) \cup {<<UnknownDevice, <<Item("a1", Num(2)), Item("s", Num(0))>>>>}

AskedOf(names) == [i \in DOMAIN names |-> Item(names[i], Undefined)]

\* address spaces of the OPC UA server
BrowseNodes == {"RootFolder", "f", "t", "u", "a", "m"}
SpaceOf(root, folder) ==
  [n \in BrowseNodes |-> IF n = "RootFolder" THEN root ELSE IF n = "f" THEN folder ELSE <<>>]

\* Root has one Object Folder, which has one Variable Temp
OneLevelSpace ==
  SpaceOf(<<Ref("f", "Folder", "Object", 0, 0, DataTypeNull)>>,
          <<Ref("t", "Temp", "Variable", 0, 1, DataTypeDouble)>>)
\* Root has an array Variable of two elements, a Method and a scalar Variable
ArraySpace ==
  SpaceOf(<<Ref("a", "Arr", "Variable", 1, 2, DataTypeInt32),
            Ref("m", "Reset", "Method", 0, 0, DataTypeNull),
            Ref("t", "Temp", "Variable", 0, 1, DataTypeDouble)>>, <<>>)
\* Root has two Variables with the same display name
TwinSpace ==
  SpaceOf(<<Ref("t", "Temp", "Variable", 0, 1, DataTypeDouble),
            Ref("u", "Temp", "Variable", 0, 1, DataTypeInt32)>>, <<>>)

AddressSpaces == {OneLevelSpace, ArraySpace, TwinSpace}

\* device.tags before the first browse: none, or a tag the server has under
\* another nodeId and type together with a tag the server does not have
ConfiguredTag(name, nodeId, uid) ==
  [name |-> name, nodeId |-> nodeId, nodeType |-> DataTypeNull, arrayIndex |-> -1,
   type |-> "string", address |-> uid, read |-> TRUE, write |-> FALSE]
StaleTags ==
  [u \in {1, 2} |-> IF u = 1 THEN ConfiguredTag(TagName(<<"Temp">>, -1), "old", 1)
                    ELSE ConfiguredTag(TagName(<<"Gone">>, -1), "gone", 2)]
InitialTags == {NoTags, StaleTags}

(***************************************************************************)
(* Init: the state after new CustomDriver(...) and the module variables of *)
(* driver.js.                                                              *)
(***************************************************************************)
Init ==
  /\ endpointUrl = [d \in {"D1"} |-> "U1"]
  /\ cfgSub = [d \in Devices |-> {}]
  /\ connections = [k \in Keys |-> NoRecord]
  /\ clients = <<>>
  /\ chains = EmptyBag
  /\ wreqs = <<>>
  /\ accumBuffer = [d \in Devices |-> EmptyBucket]
  /\ accumTimer = FALSE
  /\ reqLeft = MaxRequests
  /\ faultsLeft = MaxFaults
  /\ notifLeft = MaxNotifications
  /\ ev = Quiet
  /\ currentTransID = 0
  /\ supervisorTransIDs = {5}
  /\ browserFlag = FALSE
  /\ browserCount = 0
  /\ progressId = 0
  /\ browseTrigger = [d \in Devices |-> "Stop"]
  /\ deviceTags = [d \in Devices |-> NoTags]
  /\ descents = <<>>
  /\ progressTimers = [d \in Devices |-> 0]
  /\ conversion = NoConversion
  /\ addressSpace = OneLevelSpace

Had(d) == Exists(RecordAt(connections, UrlOf(d), d))

(***************************************************************************)
(* Supervisor requests.                                                    *)
(***************************************************************************)
\* pingDevice: ObjList.pingItem and getDeviceStatus
PingDevice(d) ==
  /\ reqLeft > 0
  /\ reqLeft' = reqLeft - 1
  /\ IF d \notin Devices
     THEN Commit(World, [Request("pingDevice", d, <<>>, FALSE) EXCEPT
                           !.reply = Reply("pingDevice", d, <<>>, errIdNotFoundTxt, <<>>)])
     ELSE LET r == getDeviceStatus(World, d, UrlOf(d), cfgSub[d])
          IN Commit(r.w, [Request("pingDevice", d, <<>>, Had(d)) EXCEPT
                            !.reply = PingReply(d, r.active)])
  /\ currentTransID' \in TransIDs
  /\ UNCHANGED <<endpointUrl, cfgSub, wreqs, accumBuffer, accumTimer, faultsLeft, notifLeft, browseVars>>

\* variant of TagsRequest that answers a request for an unknown device without an error
TagsRequestUnknownAnswered(cmd, kind, d, asked) ==
  /\ reqLeft > 0
  /\ reqLeft' = reqLeft - 1
  /\ IF d \notin Devices
     THEN /\ Commit(World, [Request(cmd, d, asked, FALSE) EXCEPT
                              !.reply = Reply(cmd, d, asked, "", <<>>)])
          /\ wreqs' = wreqs
     ELSE LET tags == deviceTagsToArray(kind, d, asked, FALSE, cfgSub[d])
              r == opcuaRequest(World, tags, kind, d, UrlOf(d), asked)
          IN /\ Commit(r.w, [Request(cmd, d, asked, Had(d)) EXCEPT
                               !.reply = r.reply, !.writes = r.writes])
             /\ wreqs' = wreqs \o r.wreq
  /\ currentTransID' \in TransIDs
  /\ UNCHANGED <<endpointUrl, cfgSub, accumBuffer, accumTimer, faultsLeft, notifLeft, browseVars>>

\* getTagsValues and setTagsValues: getTagsList, then opcuaRequest
TagsRequest(cmd, kind, d, asked) ==
  /\ reqLeft > 0
  /\ reqLeft' = reqLeft - 1
  /\ IF d \notin Devices
     THEN /\ Commit(World, [Request(cmd, d, asked, FALSE) EXCEPT
                              !.reply = Reply(cmd, d, asked, errDeviceIdNotFoundTxt, <<>>)])
          /\ wreqs' = wreqs
     ELSE LET tags == deviceTagsToArray(kind, d, asked, FALSE, cfgSub[d])
              r == opcuaRequest(World, tags, kind, d, UrlOf(d), asked)
          IN /\ Commit(r.w, [Request(cmd, d, asked, Had(d)) EXCEPT
                               !.reply = r.reply, !.writes = r.writes])
             /\ wreqs' = wreqs \o r.wreq
  /\ currentTransID' \in TransIDs
  /\ UNCHANGED <<endpointUrl, cfgSub, accumBuffer, accumTimer, faultsLeft, notifLeft, browseVars>>

GetTagsValues(d, names) == TagsRequest("getTagsValues", "read", d, AskedOf(names))

SetTagsValues(d, items) == TagsRequest("setTagsValues", "write", d, items)

\* setTagsSubscribe: ObjList.setTagsSubscribe, then updateSubscribe (one device is configured)
SetTagsSubscribe(d, S) ==
  /\ reqLeft > 0
  /\ reqLeft' = reqLeft - 1
  /\ cfgSub' = [cfgSub EXCEPT ![d] = S]
  /\ Commit(updateSubscribeOne(World, d, UrlOf(d), S),
            [Request("setTagsSubscribe", d, <<>>, Had(d)) EXCEPT
               !.reply = Reply("setTagsSubscribe", d, <<>>, "", <<>>)])
  /\ currentTransID' \in TransIDs
  /\ UNCHANGED <<endpointUrl, wreqs, accumBuffer, accumTimer, faultsLeft, notifLeft, browseVars>>

\* setDevice with option endpointUrl (restartOnChange): ObjList.setItem, then restartDevice
SetDevice(d, url) ==
  /\ reqLeft > 0
  /\ reqLeft' = reqLeft - 1
  /\ endpointUrl' = [endpointUrl EXCEPT ![d] = url]
  /\ Commit(restartDevice(World, d, url),
            [Request("setDevice", d, <<>>, Exists(RecordAt(connections, url, d))) EXCEPT
               !.reply = Reply("setDevice", d, <<>>, "", <<>>)])
  /\ currentTransID' \in TransIDs
  /\ UNCHANGED <<cfgSub, wreqs, accumBuffer, accumTimer, faultsLeft, notifLeft, browseVars>>

(***************************************************************************)
(* The connect chain of createConnect.  Phase "connect": client.connect()  *)
(* and client.createSession() are pending; phase "subscribe":              *)
(* session.createSubscription2() is pending; "up" and "failed": the chain  *)
(* has ended in its last then or in its catch.                             *)
(***************************************************************************)
onCatch(w, c) == destroyConnect(w, c, errOpcReject, TRUE)

onBackoff(w, c) == destroyConnect(w, c, errHostCloseConnectTxt, TRUE)

\* variant of the "terminated" handler that reconnects by itself
onTerminatedReconnect(w, c) ==
  createConnect(w, <<>>, w.clients[c].dev, w.clients[c].url, "ping", <<>>)

onTerminated(w, c) == destroyConnect(w, c, errSubscriptionTxt, TRUE)

\* one failure or unsolicited event of the OPC UA side
Fault == faultsLeft > 0 /\ faultsLeft' = faultsLeft - 1

\* .then(session => { record.session = session; return session.createSubscription2(...) })
SessionOk(c) ==
  LET cl == clients[c]
      key == <<cl.url, cl.dev>>
      w1 == [World EXCEPT !.clients[c].sess = "open"]
  IN /\ cl.phase = "connect"
     /\ ~cl.disc
     /\ IF Exists(connections[key])
        THEN Commit([w1 EXCEPT !.conns[key].session = c, !.clients[c].phase = "subscribe"], Quiet)
        ELSE Commit(onCatch([w1 EXCEPT !.clients[c].phase = "failed"], c), Quiet)
     /\ UNCHANGED <<currentTransID, endpointUrl, cfgSub, wreqs, accumBuffer, accumTimer, reqLeft, faultsLeft, notifLeft, browseVars>>

\* connect, createSession or createSubscription2 rejected: .catch(err => destroyConnect(...))
ConnectRejected(c) ==
  /\ clients[c].phase \in {"connect", "subscribe"}
  /\ Fault
  /\ Commit(onCatch([World EXCEPT !.clients[c].phase = "failed"], c), Quiet)
  /\ UNCHANGED <<currentTransID, endpointUrl, cfgSub, wreqs, accumBuffer, accumTimer, reqLeft, notifLeft, browseVars>>

\* .then(subscription => {...}), and the continuation of whoever waits for createConnect
SubscribeOk(c) ==
  LET cl == clients[c]
      key == <<cl.url, cl.dev>>
      had == Exists(connections[key])
      w1 == [World EXCEPT
               !.clients[c].sub = "active",
               !.clients[c].connected = TRUE,
               !.clients[c].promise = IF @ = "pending" THEN "resolved" ELSE @,
               !.clients[c].phase = IF had THEN "up" ELSE "failed"]
      w2 == IF had THEN [w1 EXCEPT !.conns[key].subscription = c] ELSE w1
      st == addMonitoredTags(w2.conns, c, cl.waiter.tags, cl.url, NoDevice)
      w3 == withRegistered(w2, cl.url, NoDevice, st)
      w4 == IF had THEN w3 ELSE onCatch(w3, c)
      h == IF cl.promise = "pending"
           THEN runHandler(cl.waiter.kind, RecordAt(w4.conns, cl.url, cl.dev),
                           cl.waiter.tags, cl.dev, cl.waiter.asked)
           ELSE [reply |-> NoReply, writes |-> <<>>, wreq |-> <<>>]
      i == descentOf(descents, c)
      browses == cl.promise = "pending" /\ cl.waiter.kind = "browse" /\ i > 0
      session == RecordAt(w4.conns, cl.url, cl.dev).session
      populates == browses /\ session = 0
  IN /\ cl.phase = "subscribe"
     /\ ~cl.disc
     /\ Commit(w4, [Quiet EXCEPT
                      !.reply = h.reply, !.writes = h.writes,
                      !.setConfig = populates,
                      !.browse = IF populates
                                 THEN [NoBrowse EXCEPT !.outcome = "populated", !.dev = cl.dev]
                                 ELSE NoBrowse])
     /\ wreqs' = wreqs \o h.wreq
     /\ SetBrowse(IF browses THEN browseContinue(BrowseState, i, session) ELSE BrowseState)
     /\ UNCHANGED <<currentTransID, endpointUrl, cfgSub, accumBuffer, accumTimer, reqLeft, faultsLeft, notifLeft>>

\* client.on("backoff", ...)
Backoff(c) ==
  /\ ~clients[c].disc
  /\ Fault
  /\ Commit(onBackoff(World, c), Quiet)
  /\ UNCHANGED <<currentTransID, endpointUrl, cfgSub, wreqs, accumBuffer, accumTimer, reqLeft, notifLeft, browseVars>>

\* subscription.on("terminated", ...)
Terminated(c) ==
  /\ clients[c].sub = "active"
  /\ ~clients[c].disc
  /\ Fault
  /\ Commit(onTerminated([World EXCEPT !.clients[c].sub = "terminated"], c), Quiet)
  /\ UNCHANGED <<currentTransID, endpointUrl, cfgSub, wreqs, accumBuffer, accumTimer, reqLeft, notifLeft, browseVars>>

\* subscription.on("error", ...): this.logger(...) is called first
SubscriptionError(c) ==
  /\ clients[c].sub = "active"
  /\ ~clients[c].disc
  /\ Fault
  /\ IF loggerIsFunction
     THEN Commit(onTerminated(World, c), Quiet)
     ELSE Commit(World, [Quiet EXCEPT !.thrown = TRUE])
  /\ UNCHANGED <<currentTransID, endpointUrl, cfgSub, wreqs, accumBuffer, accumTimer, reqLeft, notifLeft, browseVars>>

(***************************************************************************)
(* The destroy chain: closeSession(...).then(disconnect).finally(...).     *)
(***************************************************************************)
CloseOk(ch) ==
  /\ ch.phase = "closing"
  /\ Commit(closeResolved(World, ch), Quiet)
  /\ UNCHANGED <<currentTransID, endpointUrl, cfgSub, wreqs, accumBuffer, accumTimer, reqLeft, faultsLeft, notifLeft, browseVars>>

CloseFail(ch) ==
  /\ ch.phase = "closing"
  /\ Fault
  /\ Commit(closeRejected(World, ch), Quiet)
  /\ UNCHANGED <<currentTransID, endpointUrl, cfgSub, wreqs, accumBuffer, accumTimer, reqLeft, notifLeft, browseVars>>

\* client.disconnect() settled (ok: resolved), the finally block runs
DisconnectDone(ch, ok) ==
  LET cl == clients[ch.client]
      i == descentOf(descents, ch.client)
      rejectsBrowse == ch.rejects /\ cl.promise = "pending" /\ cl.waiter.kind = "browse" /\ i > 0
  IN /\ ch.phase = "disconnecting"
     /\ IF ok THEN faultsLeft' = faultsLeft ELSE Fault
     /\ Commit(destroyFinally(World, ch, ok),
               [Quiet EXCEPT
                  !.reply = rejectionReply(cl, ch),
                  !.thrown = rejectionThrows(cl, ch),
                  !.finished = [ch EXCEPT !.disc = IF ok THEN "ok" ELSE "fail"],
                  !.browse = IF rejectsBrowse
                             THEN [NoBrowse EXCEPT !.outcome = "rejected", !.dev = cl.dev]
                             ELSE NoBrowse])
     /\ SetBrowse(IF rejectsBrowse THEN browseRejected(BrowseState, i) ELSE BrowseState)
     /\ UNCHANGED <<currentTransID, endpointUrl, cfgSub, wreqs, accumBuffer, accumTimer, reqLeft, notifLeft>>

(***************************************************************************)
(* The session.write call of tag j of setTagsValues request i settles:     *)
(* good with StatusCodes.Good, otherwise rejected.  The first rejection    *)
(* settles the Promise.all of the request, later ones are ignored; the     *)
(* last fulfilment of a request without rejection resolves it.             *)
(***************************************************************************)
WriteDone(i, j, good) ==
  LET r == wreqs[i]
      left == r.pending \ {j}
      settles == r.answered = 0 /\ (~good \/ left = {})
  IN /\ j \in r.pending
     /\ IF good THEN faultsLeft' = faultsLeft ELSE Fault
     /\ wreqs' = IF left = {} THEN RemoveAt(wreqs, i)
                 ELSE [wreqs EXCEPT ![i].pending = left,
                                    ![i].answered = IF settles THEN j ELSE @]
     /\ Commit(World, [Quiet EXCEPT
                         !.settled = [dev |-> r.dev, asked |-> r.asked, idx |-> j, good |-> good,
                                      answered |-> r.answered],
                         !.reply = IF settles
                                   THEN Reply("setTagsValues", r.dev, r.asked,
                                              IF good THEN "" ELSE errWriteFail, <<>>)
                                   ELSE NoReply])
     /\ UNCHANGED <<currentTransID, endpointUrl, cfgSub, accumBuffer, accumTimer, reqLeft, notifLeft, browseVars>>

(***************************************************************************)
(* A data-change notification of the monitored item of nodeId n, created   *)
(* on the subscription of client c: response, then subscribeHandler.       *)
(***************************************************************************)
DataChange(c, n, raw) ==
  LET cl == clients[c]
      key == <<cl.url, cl.dev>>
      st == response(connections[key], n, raw)
      called == BucketKeys(st.values) # {}
      acc == IF called
             THEN subscribeHandler(accumBuffer, accumTimer, cl.dev, st.values)
             ELSE [buffer |-> accumBuffer, timer |-> accumTimer]
  IN /\ cl.sub = "active"
     /\ cl.sess = "open"
     /\ ~cl.disc
     /\ n \in cl.items
     /\ notifLeft > 0
     /\ notifLeft' = notifLeft - 1
     /\ Commit([World EXCEPT !.conns[key] = st.rec],
               [Quiet EXCEPT !.pump = [called |-> called, dev |-> cl.dev, values |-> st.values],
                             !.change = [node |-> n, raw |-> raw, url |-> cl.url, dev |-> cl.dev,
                                         assigned |-> st.assigned]])
     /\ accumBuffer' = acc.buffer
     /\ accumTimer' = acc.timer
     /\ UNCHANGED <<currentTransID, endpointUrl, cfgSub, wreqs, reqLeft, faultsLeft, browseVars>>

\* the accumTime timer of subscribeHandler expires
AccumTimerFire ==
  /\ accumTimer
  /\ accumTimer' = FALSE
  /\ accumBuffer' = [d \in Devices |-> EmptyBucket]
  /\ \E draws \in DrawSeqs(currentTransID) :
       /\ getSubscribTransID(currentTransID, draws) # NoTransID
       /\ Commit(World, [Quiet EXCEPT !.frames = accumFrames(accumBuffer),
                                     !.transID = getSubscribTransID(currentTransID, draws)])
  /\ UNCHANGED <<currentTransID, endpointUrl, cfgSub, wreqs, reqLeft, faultsLeft, notifLeft, browseVars>>

(***************************************************************************)
(* Browse: the setDevice request that sets browseTrigger, the getTags      *)
(* request (updateTagListFromDevice) and the end of the descent.           *)
(***************************************************************************)
\* the answer of getTags that carries the progress snapshot <<browserCount, progressId>>
ProgressReply(d, count, pid) == Reply("getTags", d, <<>>, "", <<Num(count), Num(pid)>>)

\* setDevice with option browseTrigger (not restartOnChange): ObjList.setItem
SetBrowseTrigger(d, v) ==
  /\ reqLeft > 0
  /\ reqLeft' = reqLeft - 1
  /\ browseTrigger' = [browseTrigger EXCEPT ![d] = v]
  /\ Commit(World, [Request("setDevice", d, <<Item("browseTrigger", Undefined)>>, Had(d)) EXCEPT
                      !.reply = Reply("setDevice", d, <<>>, "", <<>>)])
  /\ currentTransID' \in TransIDs
  /\ UNCHANGED <<endpointUrl, cfgSub, wreqs, accumBuffer, accumTimer, faultsLeft, notifLeft,
                 browserFlag, browserCount, progressId, deviceTags, descents, progressTimers,
                 addressSpace, supervisorTransIDs, conversion>>

\* getTags: updateTagListFromDevice, then the progress message or ObjList.getTags
GetTags(d) ==
  LET r == updateTagListFromDevice(World, BrowseState, d, UrlOf(d))
  IN /\ reqLeft > 0
     /\ reqLeft' = reqLeft - 1
     /\ Commit(r.w, [Request("getTags", d, <<>>, Had(d)) EXCEPT
                       !.reply = IF r.progress
                                 THEN ProgressReply(d, r.b.count, r.b.pid)
                                 ELSE Reply("getTags", d, <<>>,
                                            IF d \in Devices THEN "" ELSE errIdNotFoundTxt, <<>>),
                       !.browse = IF r.started
                                  THEN [NoBrowse EXCEPT !.started = TRUE, !.dev = d]
                                  ELSE NoBrowse,
                       !.progress = IF r.started
                                    THEN <<ProgressFrame(d, r.b.count, r.b.pid, ~r.b.flag)>>
                                    ELSE <<>>])
     /\ SetBrowse(r.b)
     /\ currentTransID' \in TransIDs
     /\ UNCHANGED <<endpointUrl, cfgSub, wreqs, accumBuffer, accumTimer, faultsLeft, notifLeft>>

\* a setTimeout callback of sendProgress fires: () => this.sendProgress(dataObj)
SendProgress(d) ==
  LET waiting == [BrowseState EXCEPT !.timers[d] = @ - 1]
      r == sendProgress(waiting, d)
  IN /\ progressTimers[d] > 0
     /\ Commit(World, [Quiet EXCEPT !.progress = <<r.frame>>])
     /\ SetBrowse(r.b)
     /\ UNCHANGED <<currentTransID, endpointUrl, cfgSub, wreqs, accumBuffer, accumTimer, reqLeft,
                    faultsLeft, notifLeft>>

\* the descent of browseTagsIter ends: every session.browse resolved, the
\* session.read of the nodes in failedReads rejected (.catch(err => this.logger));
\* then populateDevice, browserFlag = false and setConfigHandler()
BrowseEnd(i, failedReads) ==
  LET dsc == descents[i]
      refs == addressSpace["RootFolder"]
      list == browseTagsIter(addressSpace, refs, <<>>, failedReads)
      reads == readCount(addressSpace, refs, failedReads)
  IN /\ dsc.stage = "descending"
     /\ clients[dsc.session].sess = "open"
     /\ IF failedReads = {} THEN faultsLeft' = faultsLeft ELSE Fault
     /\ Commit(World, [Quiet EXCEPT
                         !.setConfig = TRUE,
                         !.browse = [started |-> FALSE, outcome |-> "populated", dev |-> dsc.dev,
                                     session |-> dsc.session, list |-> list]])
     /\ SetBrowse(browseResolved(BrowseState, i, list, reads))
     /\ UNCHANGED <<currentTransID, endpointUrl, cfgSub, wreqs, accumBuffer, accumTimer, reqLeft, notifLeft>>

\* session.browse rejected: .catch(err => {this.logger(...); resolve(null)}).  With a
\* logger the level resolves with what was collected (nothing, at the root); without
\* one the catch handler throws and the promise of browseTagsIter never settles
BrowseHang(i) ==
  LET dsc == descents[i]
  IN /\ dsc.stage = "descending"
     /\ IF clients[dsc.session].sess = "open" THEN Fault ELSE faultsLeft' = faultsLeft
     /\ IF loggerIsFunction
        THEN /\ Commit(World, [Quiet EXCEPT
                                 !.setConfig = TRUE,
                                 !.browse = [started |-> FALSE, outcome |-> "populated", dev |-> dsc.dev,
                                             session |-> dsc.session, list |-> <<>>]])
             /\ SetBrowse(browseResolved(BrowseState, i, <<>>, 0))
        ELSE /\ Commit(World, [Quiet EXCEPT
                                 !.thrown = TRUE,
                                 !.browse = [NoBrowse EXCEPT !.outcome = "hung", !.dev = dsc.dev,
                                                             !.session = dsc.session]])
             /\ SetBrowse([BrowseState EXCEPT !.descents[i].stage = "hung"])
     /\ UNCHANGED <<currentTransID, endpointUrl, cfgSub, wreqs, accumBuffer, accumTimer, reqLeft, notifLeft>>

Next ==
  \/ \E d \in Devices \cup {UnknownDevice} : PingDevice(d)
  \/ \E r \in ReadRequests : GetTagsValues(r[1], r[2])
  \/ \E r \in WriteRequests : SetTagsValues(r[1], r[2])
  \/ \E d \in Devices, S \in SubscribeSets : SetTagsSubscribe(d, S)
  \/ \E d \in Devices, url \in Urls : SetDevice(d, url)
  \/ \E c \in DOMAIN clients : SessionOk(c)
  \/ \E c \in DOMAIN clients : ConnectRejected(c)
  \/ \E c \in DOMAIN clients : SubscribeOk(c)
  \/ \E c \in DOMAIN clients : Backoff(c)
  \/ \E c \in DOMAIN clients : Terminated(c)
  \/ \E c \in DOMAIN clients : SubscriptionError(c)
  \/ \E ch \in BagToSet(chains) : CloseOk(ch)
  \/ \E ch \in BagToSet(chains) : CloseFail(ch)
  \/ \E ch \in BagToSet(chains), ok \in BOOLEAN : DisconnectDone(ch, ok)
  \/ \E i \in DOMAIN wreqs, good \in BOOLEAN : \E j \in wreqs[i].pending : WriteDone(i, j, good)
  \/ \E c \in DOMAIN clients, n \in NodeIds : \E raw \in RawValues(n) : DataChange(c, n, raw)
  \/ AccumTimerFire

Spec == Init /\ [][Next]_vars

(***************************************************************************)
(* SpecFleet: deviceList.list holds two devices, D1 and D2, that share the *)
(* endpoint U1, and a setDevice request may move a device to another       *)
(* endpoint.  The supervisor pings, reads and edits the endpointUrl; the   *)
(* OPC UA side behaves as under Spec.                                      *)
(***************************************************************************)
FleetReadLists == {<<"a0", "a1">>}

InitFleet ==
  /\ endpointUrl = [d \in AllDevices |-> "U1"]
  /\ cfgSub = [d \in Devices |-> {}]
  /\ connections = [k \in Keys |-> NoRecord]
  /\ clients = <<>>
  /\ chains = EmptyBag
  /\ wreqs = <<>>
  /\ accumBuffer = [d \in Devices |-> EmptyBucket]
  /\ accumTimer = FALSE
  /\ reqLeft = MaxFleetRequests
  /\ faultsLeft = MaxFleetFaults
  /\ notifLeft = MaxFleetNotifications
  /\ ev = Quiet
  /\ currentTransID = 0
  /\ supervisorTransIDs = {5}
  /\ browserFlag = FALSE
  /\ browserCount = 0
  /\ progressId = 0
  /\ browseTrigger = [d \in Devices |-> "Stop"]
  /\ deviceTags = [d \in Devices |-> NoTags]
  /\ descents = <<>>
  /\ progressTimers = [d \in Devices |-> 0]
  /\ conversion = NoConversion
  /\ addressSpace = OneLevelSpace

NextFleet ==
  \/ \E d \in Devices : PingDevice(d)
  \/ \E d \in Devices, names \in FleetReadLists : GetTagsValues(d, names)
  \/ \E d \in Devices, url \in AllUrls : SetDevice(d, url)
  \/ \E c \in DOMAIN clients : SessionOk(c)
  \/ \E c \in DOMAIN clients : ConnectRejected(c)
  \/ \E c \in DOMAIN clients : SubscribeOk(c)
  \/ \E c \in DOMAIN clients : Backoff(c)
  \/ \E c \in DOMAIN clients : Terminated(c)
  \/ \E ch \in BagToSet(chains) : CloseOk(ch)
  \/ \E ch \in BagToSet(chains), ok \in BOOLEAN : DisconnectDone(ch, ok)
  \/ \E c \in DOMAIN clients, n \in NodeIds : \E raw \in RawValues(n) : DataChange(c, n, raw)

SpecFleet == InitFleet /\ [][NextFleet]_vars

(***************************************************************************)
(* SpecBrowse: the two devices of SpecFleet, an OPC UA server with one of  *)
(* the address spaces, a stored configuration in which browseTrigger is    *)
(* "Start", and a supervisor that sets browseTrigger, asks for the tags    *)
(* (getTags), pings and restarts the devices.                              *)
(***************************************************************************)
FailedReads == {{}} \cup {{n} : n \in readNodes(addressSpace, addressSpace["RootFolder"])}

InitBrowse ==
  /\ endpointUrl = [d \in AllDevices |-> "U1"]
  /\ cfgSub = [d \in Devices |-> {}]
  /\ connections = [k \in Keys |-> NoRecord]
  /\ clients = <<>>
  /\ chains = EmptyBag
  /\ wreqs = <<>>
  /\ accumBuffer = [d \in Devices |-> EmptyBucket]
  /\ accumTimer = FALSE
  /\ reqLeft = MaxBrowseRequests
  /\ faultsLeft = MaxBrowseFaults
  /\ notifLeft = 0
  /\ ev = Quiet
  /\ currentTransID = 0
  /\ supervisorTransIDs = {5}
  /\ browserFlag = FALSE
  /\ browserCount = 0
  /\ progressId = 0
  /\ browseTrigger = [d \in Devices |-> "Start"]
  /\ \E tags \in InitialTags : deviceTags = [d \in Devices |-> tags]
  /\ descents = <<>>
  /\ progressTimers = [d \in Devices |-> 0]
  /\ conversion = NoConversion
  /\ addressSpace \in AddressSpaces

NextBrowse ==
  \/ \E d \in Devices : SetBrowseTrigger(d, "Start")
  \/ \E d \in Devices : GetTags(d)
  \/ \E d \in Devices : PingDevice(d)
  \/ \E d \in Devices, url \in Urls : SetDevice(d, url)
  \/ \E c \in DOMAIN clients : SessionOk(c)
  \/ \E c \in DOMAIN clients : ConnectRejected(c)
  \/ \E c \in DOMAIN clients : SubscribeOk(c)
  \/ \E ch \in BagToSet(chains) : CloseOk(ch)
  \/ \E ch \in BagToSet(chains), ok \in BOOLEAN : DisconnectDone(ch, ok)
  \/ \E i \in DOMAIN descents, failedReads \in FailedReads : BrowseEnd(i, failedReads)
  \/ \E i \in DOMAIN descents : BrowseHang(i)

SpecBrowse == InitBrowse /\ [][NextBrowse]_vars

(***************************************************************************)
(* SpecTransID: Spec with a supervisor whose requests carry a transID at   *)
(* either end of the range.                                                *)
(***************************************************************************)
InitTransID ==
  /\ endpointUrl = [d \in {"D1"} |-> "U1"]
  /\ cfgSub = [d \in Devices |-> {}]
  /\ connections = [k \in Keys |-> NoRecord]
  /\ clients = <<>>
  /\ chains = EmptyBag
  /\ wreqs = <<>>
  /\ accumBuffer = [d \in Devices |-> EmptyBucket]
  /\ accumTimer = FALSE
  /\ reqLeft = MaxRequests
  /\ faultsLeft = 0
  /\ notifLeft = MaxNotifications
  /\ ev = Quiet
  /\ currentTransID = 0
  /\ supervisorTransIDs = {5, 65530}
  /\ browserFlag = FALSE
  /\ browserCount = 0
  /\ progressId = 0
  /\ browseTrigger = [d \in Devices |-> "Stop"]
  /\ deviceTags = [d \in Devices |-> NoTags]
  /\ descents = <<>>
  /\ progressTimers = [d \in Devices |-> 0]
  /\ conversion = NoConversion
  /\ addressSpace = OneLevelSpace

NextTransID ==
  \/ \E d \in Devices : PingDevice(d)
  \/ \E r \in ReadRequests : GetTagsValues(r[1], r[2])
  \/ \E d \in Devices, S \in SubscribeSets : SetTagsSubscribe(d, S)
  \/ \E c \in DOMAIN clients : SessionOk(c)
  \/ \E c \in DOMAIN clients : SubscribeOk(c)
  \/ \E c \in DOMAIN clients, n \in NodeIds : \E raw \in RawValues(n) : DataChange(c, n, raw)
  \/ AccumTimerFire

SpecTransID == InitTransID /\ [][NextTransID]_vars

(***************************************************************************)
(* SpecTeardown: one device, requests that wait for their connection, and  *)
(* two failures of the OPC UA side, so that a destroy can itself fail.     *)
(***************************************************************************)
InitTeardown ==
  /\ endpointUrl = [d \in {"D1"} |-> "U1"]
  /\ cfgSub = [d \in Devices |-> {}]
  /\ connections = [k \in Keys |-> NoRecord]
  /\ clients = <<>>
  /\ chains = EmptyBag
  /\ wreqs = <<>>
  /\ accumBuffer = [d \in Devices |-> EmptyBucket]
  /\ accumTimer = FALSE
  /\ reqLeft = MaxTeardownRequests
  /\ faultsLeft = MaxTeardownFaults
  /\ notifLeft = 0
  /\ ev = Quiet
  /\ currentTransID = 0
  /\ supervisorTransIDs = {5}
  /\ browserFlag = FALSE
  /\ browserCount = 0
  /\ progressId = 0
  /\ browseTrigger = [d \in Devices |-> "Stop"]
  /\ deviceTags = [d \in Devices |-> NoTags]
  /\ descents = <<>>
  /\ progressTimers = [d \in Devices |-> 0]
  /\ conversion = NoConversion
  /\ addressSpace = OneLevelSpace

NextTeardown ==
  \/ \E r \in ReadRequests : GetTagsValues(r[1], r[2])
  \/ \E r \in WriteRequests : SetTagsValues(r[1], r[2])
  \/ \E c \in DOMAIN clients : SessionOk(c)
  \/ \E c \in DOMAIN clients : ConnectRejected(c)
  \/ \E c \in DOMAIN clients : SubscribeOk(c)
  \/ \E c \in DOMAIN clients : Backoff(c)
  \/ \E c \in DOMAIN clients : Terminated(c)
  \/ \E ch \in BagToSet(chains) : CloseOk(ch)
  \/ \E ch \in BagToSet(chains) : CloseFail(ch)
  \/ \E ch \in BagToSet(chains), ok \in BOOLEAN : DisconnectDone(ch, ok)
  \/ \E i \in DOMAIN wreqs, good \in BOOLEAN : \E j \in wreqs[i].pending : WriteDone(i, j, good)

SpecTeardown == InitTeardown /\ [][NextTeardown]_vars

(***************************************************************************)
(* SpecProgress: one device whose browseTrigger is "Start", the browse     *)
(* requests of the supervisor and the timers of sendProgress.  What the    *)
(* driver waits for does happen: node-opcua settles the promises of        *)
(* connect, createSession, createSubscription2, close, disconnect, browse  *)
(* and read, and an armed setTimeout callback runs.                        *)
(***************************************************************************)
InitProgress ==
  /\ endpointUrl = [d \in {"D1"} |-> "U1"]
  /\ cfgSub = [d \in Devices |-> {}]
  /\ connections = [k \in Keys |-> NoRecord]
  /\ clients = <<>>
  /\ chains = EmptyBag
  /\ wreqs = <<>>
  /\ accumBuffer = [d \in Devices |-> EmptyBucket]
  /\ accumTimer = FALSE
  /\ reqLeft = MaxProgressRequests
  /\ faultsLeft = MaxProgressFaults
  /\ notifLeft = 0
  /\ ev = Quiet
  /\ currentTransID = 0
  /\ supervisorTransIDs = {5}
  /\ browserFlag = FALSE
  /\ browserCount = 0
  /\ progressId = 0
  /\ browseTrigger = [d \in Devices |-> "Start"]
  /\ \E tags \in InitialTags : deviceTags = [d \in Devices |-> tags]
  /\ descents = <<>>
  /\ progressTimers = [d \in Devices |-> 0]
  /\ conversion = NoConversion
  /\ addressSpace \in {OneLevelSpace, ArraySpace}

ConnectSettles ==
  \/ \E c \in DOMAIN clients : SessionOk(c)
  \/ \E c \in DOMAIN clients : ConnectRejected(c)
  \/ \E c \in DOMAIN clients : SubscribeOk(c)

DestroySettles ==
  \/ \E ch \in BagToSet(chains) : CloseOk(ch)
  \/ \E ch \in BagToSet(chains), ok \in BOOLEAN : DisconnectDone(ch, ok)

BrowseSettles ==
  \/ \E i \in DOMAIN descents, failedReads \in FailedReads : BrowseEnd(i, failedReads)
  \/ \E i \in DOMAIN descents : BrowseHang(i)

TimerFires == \E d \in Devices : SendProgress(d)

\* ENABLED <<BrowseSettles>>_vars: a descent is under way (with its session open it
\* can end, BrowseEnd with no failed read; with its session closed its
\* session.browse is rejected, BrowseHang)
Descending == \E i \in DOMAIN descents : descents[i].stage = "descending"

\* weak fairness of BrowseSettles, with its enabling condition written out
BrowseSettlesFair == <>[]Descending => []<><<BrowseSettles>>_vars

NextProgress ==
  \/ \E d \in Devices : SetBrowseTrigger(d, "Start")
  \/ \E d \in Devices : GetTags(d)
  \/ ConnectSettles
  \/ DestroySettles
  \/ BrowseSettles
  \/ TimerFires

SpecProgress ==
  /\ InitProgress
  /\ [][NextProgress]_vars
  /\ WF_vars(ConnectSettles)
  /\ WF_vars(DestroySettles)
  /\ BrowseSettlesFair
  /\ WF_vars(TimerFires)

(***************************************************************************)
(* SpecHiLo: the driver receives Int64 and UInt64 values, each as two      *)
(* words, and correct64 turns them into strings.                           *)
(***************************************************************************)
MaxConversions == 1

InitHiLo ==
  /\ endpointUrl = [d \in {"D1"} |-> "U1"]
  /\ cfgSub = [d \in Devices |-> {}]
  /\ connections = [k \in Keys |-> NoRecord]
  /\ clients = <<>>
  /\ chains = EmptyBag
  /\ wreqs = <<>>
  /\ accumBuffer = [d \in Devices |-> EmptyBucket]
  /\ accumTimer = FALSE
  /\ reqLeft = 0
  /\ faultsLeft = 0
  /\ notifLeft = MaxConversions
  /\ ev = Quiet
  /\ currentTransID = 0
  /\ supervisorTransIDs = {5}
  /\ browserFlag = FALSE
  /\ browserCount = 0
  /\ progressId = 0
  /\ browseTrigger = [d \in Devices |-> "Stop"]
  /\ deviceTags = [d \in Devices |-> NoTags]
  /\ descents = <<>>
  /\ progressTimers = [d \in Devices |-> 0]
  /\ conversion = NoConversion
  /\ addressSpace = OneLevelSpace

\* correct64(tag, [hi, lo]) for a tag of nodeType Int64 or UInt64
Correct64(nodeType, hi, lo) ==
  /\ notifLeft > 0
  /\ notifLeft' = notifLeft - 1
  /\ conversion' = [nodeType |-> nodeType, hi |-> hi, lo |-> lo,
                    text |-> correct64Words(nodeType, hi, lo)]
  /\ UNCHANGED <<endpointUrl, cfgSub, connections, clients, chains, wreqs, accumBuffer,
                 accumTimer, reqLeft, faultsLeft, ev, currentTransID, browserFlag, browserCount,
                 progressId, browseTrigger, deviceTags, descents, progressTimers, addressSpace,
                 supervisorTransIDs>>

NextHiLo ==
  \E nodeType \in {DataTypeInt64, DataTypeUInt64}, hi \in Words, lo \in Words :
    Correct64(nodeType, hi, lo)

SpecHiLo == InitHiLo /\ [][NextHiLo]_vars

(***************************************************************************)
(* SpecWrite: one device and setTagsValues requests in which a writeable   *)
(* tag comes before a tag with a tag error, two tags have different tag    *)
(* errors, or two values are written; each session.write may fail.         *)
(***************************************************************************)
MixedWriteLists ==
  {<<Item("s", Num(0)), Item("ro", Num(2))>>,
   <<Item("ro", Num(2)), Item(UnknownKey, Num(1))>>,
   <<Item("s", Num(0)), Item("s", Num(1))>>}

InitWrite ==
  /\ endpointUrl = [d \in {"D1"} |-> "U1"]
  /\ cfgSub = [d \in Devices |-> {}]
  /\ connections = [k \in Keys |-> NoRecord]
  /\ clients = <<>>
  /\ chains = EmptyBag
  /\ wreqs = <<>>
  /\ accumBuffer = [d \in Devices |-> EmptyBucket]
  /\ accumTimer = FALSE
  /\ reqLeft = MaxWriteRequests
  /\ faultsLeft = MaxWriteFaults
  /\ notifLeft = 0
  /\ ev = Quiet
  /\ currentTransID = 0
  /\ supervisorTransIDs = {5}
  /\ browserFlag = FALSE
  /\ browserCount = 0
  /\ progressId = 0
  /\ browseTrigger = [d \in Devices |-> "Stop"]
  /\ deviceTags = [d \in Devices |-> NoTags]
  /\ descents = <<>>
  /\ progressTimers = [d \in Devices |-> 0]
  /\ conversion = NoConversion
  /\ addressSpace = OneLevelSpace

NextWrite ==
  \/ \E d \in Devices, items \in MixedWriteLists : SetTagsValues(d, items)
  \/ \E c \in DOMAIN clients : SessionOk(c)
  \/ \E c \in DOMAIN clients : SubscribeOk(c)
  \/ \E i \in DOMAIN wreqs, good \in BOOLEAN : \E j \in wreqs[i].pending : WriteDone(i, j, good)

SpecWrite == InitWrite /\ [][NextWrite]_vars

(***************************************************************************)
(* SpecNoUrl: the configured device has no option endpointUrl, so          *)
(* getFullDeviceAddress returns null and client.connect(null) can only     *)
(* fail.                                                                   *)
(***************************************************************************)
InitNoUrl ==
  /\ endpointUrl = [d \in {"D1"} |-> NullUrl]
  /\ cfgSub = [d \in Devices |-> {}]
  /\ connections = [k \in Keys |-> NoRecord]
  /\ clients = <<>>
  /\ chains = EmptyBag
  /\ wreqs = <<>>
  /\ accumBuffer = [d \in Devices |-> EmptyBucket]
  /\ accumTimer = FALSE
  /\ reqLeft = MaxNoUrlRequests
  /\ faultsLeft = MaxNoUrlFaults
  /\ notifLeft = 0
  /\ ev = Quiet
  /\ currentTransID = 0
  /\ supervisorTransIDs = {5}
  /\ browserFlag = FALSE
  /\ browserCount = 0
  /\ progressId = 0
  /\ browseTrigger = [d \in Devices |-> "Stop"]
  /\ deviceTags = [d \in Devices |-> NoTags]
  /\ descents = <<>>
  /\ progressTimers = [d \in Devices |-> 0]
  /\ conversion = NoConversion
  /\ addressSpace = OneLevelSpace

NextNoUrl ==
  \/ \E d \in Devices : PingDevice(d)
  \/ \E r \in ReadRequests : GetTagsValues(r[1], r[2])
  \/ \E r \in WriteRequests : SetTagsValues(r[1], r[2])
  \/ \E c \in DOMAIN clients : ConnectRejected(c)
  \/ \E ch \in BagToSet(chains), ok \in BOOLEAN : DisconnectDone(ch, ok)

SpecNoUrl == InitNoUrl /\ [][NextNoUrl]_vars

(***************************************************************************)
(* SpecLate: one device whose stored configuration has a0, or a0 and a1,   *)
(* subscribed; the supervisor reads tags and restarts the device,          *)
(* a client.disconnect() may fail, and the OPC UA server sends one         *)
(* data-change notification, possibly through a client whose Connection    *)
(* Record has been removed or replaced meanwhile.                          *)
(***************************************************************************)
MaxLateRequests == 4
MaxLateFaults == 1
MaxLateNotifications == 1

LateReadLists == {<<"a0">>, <<"a0", "a1">>, <<"s">>}
LateSubscribed == {{"a0"}, {"a0", "a1"}}

InitLate ==
  /\ endpointUrl = [d \in {"D1"} |-> "U1"]
  /\ \E S \in LateSubscribed : cfgSub = [d \in Devices |-> S]
  /\ connections = [k \in Keys |-> NoRecord]
  /\ clients = <<>>
  /\ chains = EmptyBag
  /\ wreqs = <<>>
  /\ accumBuffer = [d \in Devices |-> EmptyBucket]
  /\ accumTimer = FALSE
  /\ reqLeft = MaxLateRequests
  /\ faultsLeft = MaxLateFaults
  /\ notifLeft = MaxLateNotifications
  /\ ev = Quiet
  /\ currentTransID = 0
  /\ supervisorTransIDs = {5}
  /\ browserFlag = FALSE
  /\ browserCount = 0
  /\ progressId = 0
  /\ browseTrigger = [d \in Devices |-> "Stop"]
  /\ deviceTags = [d \in Devices |-> NoTags]
  /\ descents = <<>>
  /\ progressTimers = [d \in Devices |-> 0]
  /\ conversion = NoConversion
  /\ addressSpace = OneLevelSpace

NextLate ==
  \/ \E d \in Devices, names \in LateReadLists : GetTagsValues(d, names)
  \/ \E d \in Devices, url \in Urls : SetDevice(d, url)
  \/ \E c \in DOMAIN clients : SessionOk(c)
  \/ \E c \in DOMAIN clients : SubscribeOk(c)
  \/ \E ch \in BagToSet(chains) : CloseOk(ch)
  \/ \E ch \in BagToSet(chains), ok \in BOOLEAN : DisconnectDone(ch, ok)
  \/ \E c \in DOMAIN clients, n \in NodeIds : \E raw \in RawValues(n) : DataChange(c, n, raw)

SpecLate == InitLate /\ [][NextLate]_vars

(***************************************************************************)
(* SpecBatch: two devices on one endpoint, D1 with a0 subscribed and D2     *)
(* with a0 and a1 subscribed; the supervisor reads, the OPC UA server      *)
(* sends several data-change notifications and the accumTime timer of      *)
(* subscribeHandler expires.                                               *)
(***************************************************************************)
MaxBatchRequests == 4
MaxBatchNotifications == 3

BatchReadLists == {<<"a0">>, <<"a0", "a1">>}

InitBatch ==
  /\ endpointUrl = [d \in AllDevices |-> "U1"]
  /\ cfgSub = [d \in Devices |-> IF d = "D1" THEN {"a0"} ELSE {"a0", "a1"}]
  /\ connections = [k \in Keys |-> NoRecord]
  /\ clients = <<>>
  /\ chains = EmptyBag
  /\ wreqs = <<>>
  /\ accumBuffer = [d \in Devices |-> EmptyBucket]
  /\ accumTimer = FALSE
  /\ reqLeft = MaxBatchRequests
  /\ faultsLeft = 0
  /\ notifLeft = MaxBatchNotifications
  /\ ev = Quiet
  /\ currentTransID = 0
  /\ supervisorTransIDs = {5}
  /\ browserFlag = FALSE
  /\ browserCount = 0
  /\ progressId = 0
  /\ browseTrigger = [d \in Devices |-> "Stop"]
  /\ deviceTags = [d \in Devices |-> NoTags]
  /\ descents = <<>>
  /\ progressTimers = [d \in Devices |-> 0]
  /\ conversion = NoConversion
  /\ addressSpace = OneLevelSpace

NextBatch ==
  \/ \E d \in Devices, names \in BatchReadLists : GetTagsValues(d, names)
  \/ \E c \in DOMAIN clients : SessionOk(c)
  \/ \E c \in DOMAIN clients : SubscribeOk(c)
  \/ \E c \in DOMAIN clients, n \in NodeIds : \E raw \in RawValues(n) : DataChange(c, n, raw)
  \/ AccumTimerFire

SpecBatch == InitBatch /\ [][NextBatch]_vars

(***************************************************************************)
(* SpecSubscribe: one device; the supervisor reads tags, once naming a tag  *)
(* twice in a request, and changes its subscription list, also to the      *)
(* empty list; the OPC UA server sends one data-change notification.       *)
(***************************************************************************)
MaxSubscribeRequests == 4
MaxSubscribeNotifications == 1

SubscribeReadLists == {<<"a0", "a1">>, <<"s", "s">>}
SubscribeLists == {{"a0"}, {"s"}, {}}

InitSubscribe ==
  /\ endpointUrl = [d \in {"D1"} |-> "U1"]
  /\ cfgSub = [d \in Devices |-> {}]
  /\ connections = [k \in Keys |-> NoRecord]
  /\ clients = <<>>
  /\ chains = EmptyBag
  /\ wreqs = <<>>
  /\ accumBuffer = [d \in Devices |-> EmptyBucket]
  /\ accumTimer = FALSE
  /\ reqLeft = MaxSubscribeRequests
  /\ faultsLeft = 0
  /\ notifLeft = MaxSubscribeNotifications
  /\ ev = Quiet
  /\ currentTransID = 0
  /\ supervisorTransIDs = {5}
  /\ browserFlag = FALSE
  /\ browserCount = 0
  /\ progressId = 0
  /\ browseTrigger = [d \in Devices |-> "Stop"]
  /\ deviceTags = [d \in Devices |-> NoTags]
  /\ descents = <<>>
  /\ progressTimers = [d \in Devices |-> 0]
  /\ conversion = NoConversion
  /\ addressSpace = OneLevelSpace

NextSubscribe ==
  \/ \E d \in Devices, names \in SubscribeReadLists : GetTagsValues(d, names)
  \/ \E d \in Devices, S \in SubscribeLists : SetTagsSubscribe(d, S)
  \/ \E c \in DOMAIN clients : SessionOk(c)
  \/ \E c \in DOMAIN clients : SubscribeOk(c)
  \/ \E c \in DOMAIN clients, n \in NodeIds : \E raw \in RawValues(n) : DataChange(c, n, raw)

SpecSubscribe == InitSubscribe /\ [][NextSubscribe]_vars

(***************************************************************************)
(* SpecArray: one device whose tags a0 and a1 are elements 0 and 1 of the   *)
(* array node n1; the supervisor reads them and writes both in one         *)
(* request or one at a time, the OPC UA server publishes the array and     *)
(* answers the session.write calls.                                        *)
(***************************************************************************)
MaxArrayRequests == 3
MaxArrayFaults == 1
MaxArrayNotifications == 1

ArrayReadLists == {<<"a0", "a1">>}
ArrayWriteLists ==
  {<<Item("a0", Num(5)), Item("a1", Num(2))>>,
   <<Item("a0", Num(5))>>,
   <<Item("a1", Num(2))>>}

InitArray ==
  /\ endpointUrl = [d \in {"D1"} |-> "U1"]
  /\ cfgSub = [d \in Devices |-> {}]
  /\ connections = [k \in Keys |-> NoRecord]
  /\ clients = <<>>
  /\ chains = EmptyBag
  /\ wreqs = <<>>
  /\ accumBuffer = [d \in Devices |-> EmptyBucket]
  /\ accumTimer = FALSE
  /\ reqLeft = MaxArrayRequests
  /\ faultsLeft = MaxArrayFaults
  /\ notifLeft = MaxArrayNotifications
  /\ ev = Quiet
  /\ currentTransID = 0
  /\ supervisorTransIDs = {5}
  /\ browserFlag = FALSE
  /\ browserCount = 0
  /\ progressId = 0
  /\ browseTrigger = [d \in Devices |-> "Stop"]
  /\ deviceTags = [d \in Devices |-> NoTags]
  /\ descents = <<>>
  /\ progressTimers = [d \in Devices |-> 0]
  /\ conversion = NoConversion
  /\ addressSpace = OneLevelSpace

NextArray ==
  \/ \E d \in Devices, names \in ArrayReadLists : GetTagsValues(d, names)
  \/ \E d \in Devices, items \in ArrayWriteLists : SetTagsValues(d, items)
  \/ \E c \in DOMAIN clients : SessionOk(c)
  \/ \E c \in DOMAIN clients : SubscribeOk(c)
  \/ \E i \in DOMAIN wreqs, good \in BOOLEAN : \E j \in wreqs[i].pending : WriteDone(i, j, good)
  \/ \E c \in DOMAIN clients, n \in NodeIds : \E raw \in RawValues(n) : DataChange(c, n, raw)

SpecArray == InitArray /\ [][NextArray]_vars

(***************************************************************************)
(* Properties.                                                             *)
(***************************************************************************)
TheRecord(d) == RecordAt(connections, UrlOf(d), d)

\* C1: on one Connection Record subscription.monitor is called at most once
\* per nodeId, and exactly once for a nodeId that has a NodeRecord; tags that
\* share the nodeId are appended to the existing NodeRecord.
C1_MonitorOncePerNode ==
  \A key \in Keys, n \in NodeIds :
    /\ connections[key].mon[n] <= 1
    /\ connections[key].ns[n].present <=> connections[key].mon[n] = 1

C1_TwoTagsShareOneMonitoredItem ==
  \E key \in Keys, n \in NodeIds :
    /\ Len(connections[key].ns[n].tags) >= 2
    /\ connections[key].mon[n] = 1

\* C2: when one data-change notification gives projected values to two (or
\* more) subscribed tags of a device, subscribeHandler puts all of them in
\* accumBuffer and the accumTime timer is armed, so that one asyncTagsValues
\* frame carries them.
C2_TwoSubscribedTagsAreBatched ==
  (ev.pump.called /\ Cardinality(BucketKeys(ev.pump.values)) >= 2)
    => /\ accumTimer
       /\ \A k \in BucketKeys(ev.pump.values) :
            accumBuffer[ev.pump.dev][k] = ev.pump.values[k]

NullIfNullish(v) == IF Nullish(v) THEN JsNull ELSE v

Cached(rec, name) ==
  IF Registered(rec, name) THEN NullIfNullish(rec.objs[rec.tags[name]].value) ELSE JsNull

IsReadAnswer == ev.reply.cmd = "getTagsValues" /\ ev.reply.error = "" /\ ev.reply.dev \in Devices

\* C3: a successful getTagsValues answer for a known device has one element
\* per requested name, in request order; element i is the cached value of
\* the TagRecord registered under name i, or null when there is none or it
\* holds no value; and a cached value is the projection of the last raw
\* value its NodeRecord holds.
C3_ReadReturnsCachedValues ==
  /\ IsReadAnswer =>
       /\ Len(ev.reply.values) = Len(ev.reply.asked)
       /\ \A i \in DOMAIN ev.reply.asked :
            ev.reply.values[i] = Cached(TheRecord(ev.reply.dev), ev.reply.asked[i].name)
  /\ \A key \in Keys, k \in AllKeys :
       LET rec == connections[key]
           o == rec.objs[rec.tags[k]]
       IN Registered(rec, k) =>
            NullIfNullish(o.value) = NullIfNullish(getValueByIndex(o, rec.ns[o.nodeId].originalValue))

C3_ReadOfObservedValue ==
  /\ IsReadAnswer
  /\ Len(ev.reply.values) = 2
  /\ ev.reply.values[1].t = "number"
  /\ ev.reply.values[1] # ev.reply.values[2]

InvalidName(d, name) == ~HasTag(d, name) \/ ~CfgTag(d, name).options

\* C4: in a successful getTagsValues answer the element of a name that is
\* not a tag of the device, or of a tag whose options cannot be read, is an
\* {errorTxt} object.
C4_InvalidTagYieldsErrorObject ==
  IsReadAnswer =>
    \A i \in DOMAIN ev.reply.asked :
      InvalidName(ev.reply.dev, ev.reply.asked[i].name) => IsErrorObj(ev.reply.values[i])

NotWriteable(d, name) == HasTag(d, name) /\ ~CfgTag(d, name).write

TargetsReadOnly(reply) ==
  /\ reply.cmd = "setTagsValues"
  /\ reply.dev \in Devices
  /\ \E i \in DOMAIN reply.asked : NotWriteable(reply.dev, reply.asked[i].name)

\* C5 as stated: every answer to a setTagsValues request that targets a tag
\* with write = false carries the error TagNotWriteable.
C5_AlwaysTagNotWriteable ==
  TargetsReadOnly(ev.reply) => ev.reply.error = errTagNotWriteableTxt

\* C5, amended: no session.write is ever issued for a tag with write = false,
\* and a setTagsValues request that targets such a tag is never answered
\* with success.  When the tag is the first of the request, the answer is
\* the reason of the destroy if the connection attempt the request waited
\* for was destroyed, EmptySession if the Connection Record holds no session
\* when the write handler runs, and TagNotWriteable otherwise.
C5_ReadOnlyWriteFails ==
  /\ \A i \in DOMAIN ev.writes : ~NotWriteable(ev.writes[i].dev, ev.writes[i].name)
  /\ TargetsReadOnly(ev.reply) =>
       /\ ev.reply.error # ""
       /\ NotWriteable(ev.reply.dev, ev.reply.asked[1].name) =>
            ev.reply.error =
              IF ev.finished # NoChain THEN ev.finished.reason
              ELSE IF TheRecord(ev.reply.dev).session = 0 THEN errEmptySession
              ELSE errTagNotWriteableTxt

C5_ReadOnlyWriteRejectedOnSession ==
  /\ TargetsReadOnly(ev.reply)
  /\ TheRecord(ev.reply.dev).session # 0
  /\ ev.reply.error = errTagNotWriteableTxt

\* the session.write calls of a step that are for tags with an arrayIndex
ArrayWrites(e) ==
  {i \in DOMAIN e.writes : CfgTag(e.writes[i].dev, e.writes[i].name).arrayIndex >= 0}

\* the step from the state before the calls (unprimed) to the state after
C6_Step ==
  \A i \in ArrayWrites(ev') :
    LET w == ev'.writes[i]
        tag == CfgTag(w.dev, w.name)
        k == tag.arrayIndex
        node == connections[<<w.url, w.dev>>].ns[w.nodeId]
        original == node.originalValue
        sent == w.value
    IN /\ original.t = "array"
       /\ sent.t = "array"
       /\ Len(sent.a) = (IF k + 1 > Len(original.a) THEN k + 1 ELSE Len(original.a))
       /\ sent.a[k + 1] = (IF tag.type = "bool" THEN Bool(Truthy(w.setValue)) ELSE w.setValue)
       /\ \A j \in DOMAIN original.a : j # k + 1 => sent.a[j] = original.a[j]
       /\ connections'[<<w.url, w.dev>>].ns[w.nodeId].originalValue = original

\* C6: a session.write issued for a tag with arrayIndex k >= 0 carries an
\* array whose element k is the coerced set value and whose other elements
\* are those of the NodeRecord's originalValue (the array is as long as
\* originalValue, or k + 1 if that is longer), and the step leaves
\* originalValue as it was.
C6_ArrayWriteReplacesOneElement == [][C6_Step]_vars

C6_ArrayWriteIssued ==
  \E i \in ArrayWrites(ev) :
    /\ ev.writes[i].value.t = "array"
    /\ Len(ev.writes[i].value.a) = 2
    /\ TheRecord(ev.writes[i].dev).ns[ev.writes[i].nodeId].originalValue.t = "array"

\* C7: a Connection Record is removed only by the finally block of a destroy
\* chain, that is after the chain's client.disconnect attempt has settled
\* (resolved or rejected), which is called only after the chain's
\* session.close attempt, if it had a session to close, has completed.
C7_RemovedAfterCloseAndDisconnect ==
  ev.removed # {} =>
    /\ ev.finished.phase = "disconnecting"
    /\ ev.finished.disc \in {"ok", "fail"}
    /\ ev.finished.sess # 0 => clients[ev.finished.sess].sess = "closed"
    /\ ev.removed = {<<clients[ev.finished.client].url, clients[ev.finished.client].dev>>}

C7_RemovedAfterFailedDisconnect ==
  /\ ev.removed # {}
  /\ ev.finished.sess # 0
  /\ ev.finished.disc = "fail"

\* C8: a failure of session.close does not stop the teardown: no destroy
\* chain is left waiting forever for closeSession, with its Connection
\* Record still in the connections map.
C8_CloseFailureDoesNotStopTeardown ==
  \A ch \in BagToSet(chains) :
    ch.phase = "stalled" =>
      ~Exists(connections[<<clients[ch.client].url, clients[ch.client].dev>>])

CreatingRequests == {"pingDevice", "getTagsValues", "setTagsValues", "setTagsSubscribe"}

\* C9: an OPC UA client is created only in the step that serves a supervisor
\* request (ping, read, write, subscribe update), never by an event of the
\* OPC UA side; and a getTagsValues request with tags for a known device that
\* finds no Connection Record creates one client and one record.
C9_NoAutomaticReconnect ==
  /\ ev.created > 0 => ev.req \in CreatingRequests
  /\ (ev.req = "getTagsValues" /\ ev.dev \in Devices /\ ev.asked # <<>> /\ ~ev.had) =>
       /\ ev.created = 1
       /\ TheRecord(ev.dev).client = Len(clients)

C9_ReadRecreatesAfterTerminated ==
  /\ ev.req = "getTagsValues"
  /\ ev.created = 1
  /\ \E c \in DOMAIN clients : clients[c].sub = "terminated" /\ clients[c].disc

\* C10: pingDevice of a known device answers active = TRUE iff a Connection
\* Record exists and the connected flag of its client is set; with no record
\* it answers FALSE and creates exactly one client, whose connection attempt
\* is given the device's first tag; with a record it creates none.
C10_PingDevice ==
  (ev.req = "pingDevice" /\ ev.dev \in Devices) =>
    /\ ev.reply.error = ""
    /\ ev.had =>
         /\ ev.created = 0
         /\ ev.reply.active = clients[TheRecord(ev.dev).client].connected
    /\ ~ev.had =>
         /\ ~ev.reply.active
         /\ ev.created = 1
         /\ TheRecord(ev.dev).client = Len(clients)
         /\ Len(clients[Len(clients)].waiter.tags) = 1
         /\ clients[Len(clients)].waiter.tags[1].name = DeviceTagKeys(ev.dev)[1]

C10_PingOfConnectedDevice ==
  /\ ev.req = "pingDevice"
  /\ ev.had
  /\ ev.reply.active

\* the step serves a setDevice request for a device whose Connection Record
\* (under the endpointUrl the device had when the request arrived) exists and
\* whose client is connected
RestartOfLiveDevice ==
  /\ ev'.req = "setDevice"
  /\ ev'.asked = <<>>
  /\ reqLeft' = reqLeft - 1
  /\ Exists(TheRecord(ev'.dev))
  /\ clients[TheRecord(ev'.dev).client].connected

C11_Step ==
  RestartOfLiveDevice =>
    \E ch \in BagToSet(chains') :
      /\ chains' = chains (+) SetToBag({ch})
      /\ ch.client = TheRecord(ev'.dev).client
      /\ ch.reason = restartOnChangeTxt

\* C11: a setDevice request that sets the restartOnChange option endpointUrl
\* of a device with a live connection starts exactly one destroy of that
\* device's connection (one destroyConnect call for the client of its
\* Connection Record, with the reason RestartOnChangeParams).
C11_RestartDestroysOnce == [][C11_Step]_vars

\* the step serves a getTags request for a device whose browseTrigger is
\* "Start" while browserFlag is set
TriggerWhileBrowsing ==
  /\ ev'.req = "getTags"
  /\ reqLeft' = reqLeft - 1
  /\ browserFlag
  /\ browseTrigger[ev'.dev] = "Start"

C12_Step ==
  TriggerWhileBrowsing =>
    /\ descents' = descents
    /\ clients' = clients
    /\ connections' = connections
    /\ deviceTags' = deviceTags
    /\ browserFlag'
    /\ browserCount' = browserCount
    /\ progressId' = progressId
    /\ ~ev'.browse.started
    /\ ev'.reply = ProgressReply(ev'.dev, browserCount, progressId)

\* C12: at most one browse chain (connecting, descending or stuck) exists at
\* any time in the whole driver, and browserFlag is set while it exists; a
\* getTags trigger that arrives while browserFlag is set, for the same or for
\* another device, starts no descent, creates no client, changes nothing of
\* the browse state and is answered with the current progress snapshot.
C12_OneBrowseAtATime ==
  /\ [](Len(descents) <= 1 /\ (descents # <<>> => browserFlag))
  /\ [][C12_Step]_vars

C12_TriggerForOtherDeviceWhileDescending ==
  /\ ev.req = "getTags"
  /\ ~ev.browse.started
  /\ ev.reply.values # <<>>
  /\ Len(descents) = 1
  /\ descents[1].stage = "descending"
  /\ descents[1].dev # ev.dev

C13_Step ==
  (deviceTags' # deviceTags \/ ev'.setConfig) =>
    /\ ev'.browse.outcome = "populated"
    /\ ev'.browse.session # 0

\* C13: device.tags is changed and setConfigHandler is called only by the
\* step that ends a browse whose connection was established (browseTagsIter
\* ran on a session) and whose descent came to its end; a browse that fails
\* leaves device.tags as it was.
C13_FailedBrowseKeepsTags == [][C13_Step]_vars

\* the flat list a browse of the server gives when no call fails
FullList == browseTagsIter(addressSpace, addressSpace["RootFolder"], <<>>, {})

\* C14: a browse of the server (on a session, with no failed call) gives the
\* list FullList, and once device.tags has been populated from it, browsing
\* the unchanged server again and populating from that list leaves
\* device.tags (tagUids and all tag fields) as it is.
C14_SecondBrowseChangesNothing ==
  (ev.browse.outcome = "populated" /\ ev.browse.session # 0 /\ ev.browse.list = FullList) =>
    populateDevice(deviceTags[ev.browse.dev], FullList) = deviceTags[ev.browse.dev]

\* the step registers tag name on the record of key, whose NodeRecord for the
\* tag's nodeId held an originalValue before the step
SeededRegistration(key, name) ==
  /\ Exists(connections[key])
  /\ connections'[key].client = connections[key].client
  /\ connections[key].tags[name] = 0
  /\ connections'[key].tags[name] # 0
  /\ CfgTag(key[2], name).nodeId \in NodeIds
  /\ connections[key].ns[CfgTag(key[2], name).nodeId].present
  /\ connections[key].ns[CfgTag(key[2], name).nodeId].originalValue # Undefined

\* the array index of the tag selects an element of the raw value
InRange(tag, value) ==
  tag.arrayIndex = -1 \/ tag.arrayIndex < Len(IF isIterable(value) THEN value.a ELSE <<value>>)

C15_StepNonNull ==
  \A key \in Keys, name \in AllKeys :
    SeededRegistration(key, name) =>
      LET n == CfgTag(key[2], name).nodeId
          tag == connections'[key].objs[connections'[key].tags[name]]
      IN /\ ~Nullish(tag.value)
         /\ connections'[key].mon[n] = connections[key].mon[n]

C15_Step ==
  \A key \in Keys, name \in AllKeys :
    SeededRegistration(key, name) =>
      LET n == CfgTag(key[2], name).nodeId
          original == connections[key].ns[n].originalValue
          tag == connections'[key].objs[connections'[key].tags[name]]
      IN /\ tag.value = getValueByIndex(tag, original)
         /\ (original # JsNull /\ InRange(tag, original)) => ~Nullish(tag.value)
         /\ connections'[key].ns[n].originalValue = original
         /\ connections'[key].mon[n] = connections[key].mon[n]

ChangedRecord == connections[<<ev.change.url, ev.change.dev>>]
FanOut == IF Exists(ChangedRecord) THEN ChangedRecord.ns[ev.change.node].tags ELSE <<>>

ChangedKeys == {k \in Keys : connections'[k] # connections[k]}

C17_Step ==
  /\ Cardinality(ChangedKeys) <= 1
  /\ \A k \in ChangedKeys :
       /\ ev'.req # "" => k[2] = ev'.dev
       /\ ev'.change.node # NoNode => k = <<ev'.change.url, ev'.change.dev>>
       /\ ev'.finished.client # 0 =>
            k = <<clients[ev'.finished.client].url, clients[ev'.finished.client].dev>>

\* every record is kept under the endpointUrl and the deviceUid its client was created for
C17_KeyedByUrlAndDevice ==
  \A k \in Keys :
    Exists(connections[k]) =>
      /\ clients[connections[k].client].url = k[1]
      /\ clients[connections[k].client].dev = k[2]

C18_ConnectedMeansValidHandles ==
  \A k \in Keys :
    (Exists(connections[k]) /\ clients[connections[k].client].connected) =>
      /\ connections[k].session # 0
      /\ clients[connections[k].session].sess = "open"
      /\ connections[k].subscription # 0
      /\ clients[connections[k].subscription].sub = "active"

\* the step in which client c reaches Subscribed: connected turns true
ReachesSubscribed(c) == ~clients[c].connected /\ clients'[c].connected

C19_Step ==
  \A c \in DOMAIN clients :
    ReachesSubscribed(c) =>
      LET rec == connections'[<<clients[c].url, clients[c].dev>>]
          tags == clients[c].waiter.tags
      IN \A i \in DOMAIN tags :
           tags[i].err = "" =>
             /\ Registered(rec, tags[i].name)
             /\ rec.ns[tags[i].nodeId].present
             /\ rec.mon[tags[i].nodeId] = 1
             /\ tags[i].nodeId \in clients'[c].items

\* C19: in the step in which a connection reaches Subscribed, every
\* error-free tag passed to createConnect is registered on the Connection
\* Record and its nodeId has a monitored item.
C19_InitialTagsRegisteredAtSubscribed == [][C19_Step]_vars

\* a step of a setTagsValues request: the request itself, the handler run for
\* it when its connection is up, or the completion of one of its session.write calls
WriteStep ==
  \/ ev'.req = "setTagsValues"
  \/ wreqs' # wreqs

C20_Step ==
  WriteStep =>
    \A k \in Keys :
      (Exists(connections[k]) /\ connections'[k].client = connections[k].client) =>
        LET rec == connections[k]
            after == connections'[k]
        IN /\ Len(after.objs) >= Len(rec.objs)
           /\ \A o \in DOMAIN rec.objs : after.objs[o].value = rec.objs[o].value
           /\ \A n \in NodeIds : after.ns[n].originalValue = rec.ns[n].originalValue
           /\ \A o \in DOMAIN after.objs \ DOMAIN rec.objs :
                after.objs[o].value =
                  IF rec.ns[after.objs[o].nodeId].present
                  THEN getValueByIndex(after.objs[o], rec.ns[after.objs[o].nodeId].originalValue)
                  ELSE Undefined

\* C20: no step of a setTagsValues request (the request, its handler, the
\* completion of its session.write calls) changes the value of a TagRecord or
\* the originalValue of a NodeRecord; a TagRecord the request registers gets
\* the projection of the originalValue published before, never the set value.
\* So the values a read returns stay the last published ones.
C20_WriteLeavesCacheAlone == [][C20_Step]_vars

\* a1 := 2 was written with success over the published [0, 2]: the cache
\* still holds the published projection 1, and that is what a read returns
C20_ReadAfterWriteSeesPublished ==
  /\ ev.reply = Reply("setTagsValues", "D1", <<Item("a1", Num(2)), Item("s", Num(0))>>, "", <<>>)
  /\ Registered(TheRecord("D1"), "a1")
  /\ TheRecord("D1").ns["n1"].originalValue = Arr(<<Num(0), Num(2)>>)
  /\ TheRecord("D1").objs[TheRecord("D1").tags["a1"]].value = Num(1)
  /\ opcuaGetValues(TheRecord("D1"), deviceTagsToArray("read", "D1", AskedOf(<<"a0", "a1">>), FALSE, {}))
       = <<Num(0), Num(1)>>

\* a getTagsValues or setTagsValues request for a deviceUid that is not in deviceList.list
UnknownDeviceRequest ==
  /\ ev'.req \in {"getTagsValues", "setTagsValues"}
  /\ reqLeft' = reqLeft - 1
  /\ ev'.dev \notin Devices

C21_Step ==
  UnknownDeviceRequest =>
    /\ ev'.reply = Reply(ev'.req, ev'.dev, ev'.asked, errDeviceIdNotFoundTxt, <<>>)
    /\ connections' = connections
    /\ clients' = clients
    /\ chains' = chains
    /\ wreqs' = wreqs
    /\ ev'.writes = <<>>
    /\ ev'.created = 0

\* C21: a read or write for a deviceUid that is not in the device list is
\* answered with DeviceIdNotFound; the step creates no Connection Record and
\* no client, and issues no session.write or other OPC UA call.
C21_UnknownDeviceFails == [][C21_Step]_vars

\* a write naming two tags for the unknown device was answered, while a live connection exists
C21_UnknownDeviceWriteAnswered ==
  /\ ev.req = "setTagsValues"
  /\ ev.dev = UnknownDevice
  /\ Len(ev.asked) = 2
  /\ ev.reply.error = errDeviceIdNotFoundTxt
  /\ Exists(TheRecord("D1"))
  /\ clients[TheRecord("D1").client].connected

\* a getTagsValues or setTagsValues request that names tags of a configured
\* device whose option endpointUrl is missing
NoUrlRequest ==
  /\ ev'.req \in {"getTagsValues", "setTagsValues"}
  /\ reqLeft' = reqLeft - 1
  /\ ev'.dev \in Devices
  /\ endpointUrl[ev'.dev] = NullUrl
  /\ ev'.asked # <<>>

C22_Step ==
  NoUrlRequest =>
    /\ ev'.reply = Reply(ev'.req, ev'.dev, ev'.asked, errDeviceIdNotFoundTxt, <<>>)
    /\ clients' = clients
    /\ connections' = connections

\* C22: a read or write for a configured device whose option endpointUrl is
\* missing is answered with DeviceIdNotFound, and the step creates no OPC UA
\* client and no Connection Record.
C22_MissingUrlFails == [][C22_Step]_vars

\* C23: the asyncTagsValues frames of a step carry a generated transID in
\* 0 .. maxTransID - 1 whose distance from server.currentTransID, the transID
\* of the last supervisor request, is at least 10.
C23_FrameTransIDIsFarFromLastRequest ==
  ev.frames # {} =>
    /\ ev.transID \in 0..(maxTransID - 1)
    /\ Abs(ev.transID - currentTransID) >= 10

\* a frame sent with the nearest accepted value below the last request's transID
C23_FrameJustFarEnough ==
  /\ ev.frames # {}
  /\ currentTransID = 65530
  /\ ev.transID = 65520

\* client c's connection is being destroyed by a trigger that rejects the promise of createConnect
Destroying(c) == \E ch \in BagToSet(chains) : ch.client = c /\ ch.rejects

\* a read or write request still waits for the promise of createConnect of
\* client c while the connection is being destroyed
WaitingDestroyed(c) ==
  /\ clients[c].promise = "pending"
  /\ clients[c].waiter.kind \in {"read", "write"}
  /\ Destroying(c)

DestroyKinds == {errOpcReject, errHostCloseConnectTxt, errSubscriptionTxt}

\* the waiting request is completed only by the finally block of a destroy
\* chain of its connection, with the error of that chain's trigger
C24_Step ==
  \A c \in DOMAIN clients :
    (WaitingDestroyed(c) /\ clients'[c].promise # "pending") =>
      /\ clients'[c].promise = "rejected"
      /\ ev'.finished.client = c
      /\ ev'.finished.reason \in DestroyKinds
      /\ ev'.reply = Reply(CmdOf(clients[c].waiter.kind), clients[c].dev, clients[c].waiter.asked,
                           ev'.finished.reason, <<>>)

\* the waiting request is not left without anything that could complete it:
\* the connect chain has ended and every destroy chain waits forever for closeSession
C24_NotStuck ==
  \A c \in DOMAIN clients :
    (WaitingDestroyed(c) /\ clients[c].phase = "failed") =>
      \E ch \in BagToSet(chains) : ch.client = c /\ ch.rejects /\ ch.phase # "stalled"

\* C24: a read or write request that still waits for its connection when
\* the connection is destroyed is completed exactly once, with the error of
\* the destroy trigger (OpcReject, HostClose or SubscriptionTerminated); it
\* is never completed with success and is never left pending for ever.
C24_WaitingRequestGetsDestroyError == []C24_NotStuck /\ [][C24_Step]_vars

(***************************************************************************)
(* C25                                                                     *)
(***************************************************************************)
\* the step handed a frame of browse pid with done:true to the progress handler
FinalFrame(pid) ==
  \E i \in DOMAIN ev.progress : ev.progress[i].pid = pid /\ ev.progress[i].done

\* every frame handed over in a step carries done = !browserFlag of that moment
C25_FrameStep ==
  \A i \in DOMAIN ev'.progress : ev'.progress[i].done = ~browserFlag'

\* C25: every browse that starts ends: browserFlag is cleared again, whether the
\* browse succeeds or fails, and a frame with done:true and the progressId of that
\* browse is handed to the progress handler; a frame handed over while the flag is
\* set carries done:false.
C25_EveryBrowseEndsWithFinalFrame ==
  /\ browserFlag ~> ~browserFlag
  /\ \A pid \in 1..MaxProgressRequests :
       (browserFlag /\ progressId = pid) ~> FinalFrame(pid)
  /\ [][C25_FrameStep]_vars

(***************************************************************************)
(* C26                                                                     *)
(***************************************************************************)
\* the 64-bit number whose high and low 32 bits are the words hi and lo
Value64(hi, lo) == BigAdd(Shift16(Shift16(ToUint32(hi))), ToUint32(lo))

\* the exact decimal rendering: two's complement for Int64, unsigned for UInt64
ExactDecimal(nodeType, hi, lo) ==
  LET u == Value64(hi, lo)
  IN IF nodeType = DataTypeInt64 /\ ~BigLess(u, Two63)
     THEN [sign |-> "-", digits |-> numberToString(BigSub(Two64, u))]
     ELSE [sign |-> "", digits |-> numberToString(u)]

Converted == conversion # NoConversion

\* the sum dlo of the conversion is below 2^53, so the doubles of the code hold
\* it, and every smaller intermediate value, exactly
DoublesExact ==
  LET h == ToUint32(conversion.hi)
      l == ToUint32(conversion.lo)
      w == IF conversion.text.sign = "-" THEN negate64(h, l) ELSE [hi |-> h, lo |-> l]
  IN BigLess(dloOf(w.hi, w.lo), Two53)

\* C26: for every 64-bit value given as the words hi and lo, the string of
\* int64HiLoToString (Int64, values in [-2^63, 2^63)) and of uint64HiLoToString
\* (UInt64, values in [0, 2^64)) is the exact decimal rendering of the value.
C26_HiLoStringIsExactDecimal ==
  Converted =>
    /\ conversion.text = ExactDecimal(conversion.nodeType, conversion.hi, conversion.lo)
    /\ DoublesExact

\* the most negative Int64, 0x80000000 00000000, has been converted
C26_MostNegativeConverted ==
  /\ conversion.nodeType = DataTypeInt64
  /\ conversion.hi = Word(32768, 0)
  /\ conversion.lo = Word(0, 0)
  /\ conversion.text = [sign |-> "-",
                        digits |-> <<9, 2, 2, 3, 3, 7, 2, 0, 3, 6, 8, 5, 4, 7, 7, 5, 8, 0, 8>>]

(***************************************************************************)
(* C27                                                                     *)
(***************************************************************************)
\* the step completes a getTagsValues request of a configured device with values
ReadCompletes ==
  /\ ev'.reply.cmd = "getTagsValues"
  /\ ev'.reply.error = ""
  /\ ev'.reply.dev \in Devices

C27_Step ==
  ReadCompletes =>
    LET d == ev'.reply.dev
        tags == deviceTagsToArray("read", d, ev'.reply.asked, FALSE, {})
    IN \A i \in DOMAIN tags :
         tags[i].err = "" => Registered(connections'[<<UrlOf(d), d>>], tags[i].name)

\* C27: when a read request completes, every tag of the request without a tag
\* error is in the registry of the device's Connection Record, whether the
\* record existed before the request or the request created the connection.
C27_CompletedReadHasItsTagsRegistered == [][C27_Step]_vars

(***************************************************************************)
(* C28                                                                     *)
(***************************************************************************)
\* a session.write of the step's request failed
WriteFailed == ev'.settled.idx # 0 /\ ~ev'.settled.good

C28_OrderStep ==
  (WriteFailed /\ ev'.settled.answered # 0) => ev'.settled.answered < ev'.settled.idx

\* C28 as stated: when several tags of one setTagsValues request fail, by a tag
\* error or by a failed write, the request is answered with the error of the
\* failing tag that comes first in the request: no tag that fails comes before
\* the tag whose error answered the request.
C28_FirstFailingTagInRequestOrder == [][C28_OrderStep]_vars

\* the texts a tag error of a write request can have
TagErrorTexts == {errTagNotFoundTxt, errTagNotWriteableTxt, errConfigTxt}

\* the positions of the request's tags that have a tag error
TagErrorsOf(d, asked) ==
  LET tags == deviceTagsToArray("write", d, asked, FALSE, cfgSub[d])
  IN {i \in DOMAIN tags : tags[i].err # ""}

FirstTagError(d, asked) ==
  LET tags == deviceTagsToArray("write", d, asked, FALSE, cfgSub[d])
      first == CHOOSE i \in TagErrorsOf(d, asked) : \A k \in TagErrorsOf(d, asked) : i <= k
  IN tags[first].err

C28_TimeStep ==
  LET r == ev'.reply
  IN (r.cmd = "setTagsValues" /\ r.dev \in Devices) =>
       /\ r.error \in TagErrorTexts =>
            /\ TagErrorsOf(r.dev, r.asked) # {}
            /\ r.error = FirstTagError(r.dev, r.asked)
       /\ r.error = errWriteFail =>
            /\ TagErrorsOf(r.dev, r.asked) = {}
            /\ WriteFailed
            /\ ev'.settled.answered = 0
       /\ r.error = "" => TagErrorsOf(r.dev, r.asked) = {}

\* C28 (amended): a setTagsValues request answered with a tag error carries the
\* first tag error in request order, whatever the writes of its other tags do;
\* it is answered with the write failure only when no tag has a tag error, by
\* the session.write that fails first in time, and it succeeds only when no tag
\* has a tag error.
C28_FirstRejectionInTime == [][C28_TimeStep]_vars

\* the write of the first tag of a request fails after the request was answered
\* with the tag error of its second tag
C28_EarlierTagFailsAfterAnswer ==
  /\ ev.settled.idx = 1
  /\ ~ev.settled.good
  /\ ev.settled.answered = 2
  /\ ev.reply = NoReply

(***************************************************************************)
(* C29                                                                     *)
(***************************************************************************)
Least(a, b) == IF a < b THEN a ELSE b

\* the merge of the discovered list into the tags before: after is device.tags
\* when populateDevice returns, uids[i] the tagUid written for the i-th entry
MergeIsExact(before, list, after, uids) ==
  LET named(n) == {u \in DOMAIN before : before[u].name = n}
      entries(n) == {i \in DOMAIN list : list[i].name = n}
  IN \* exactly one tag per discovered entry, and no others
     /\ DOMAIN after = {uids[i] : i \in DOMAIN list}
     /\ \A i, j \in DOMAIN list : uids[i] = uids[j] => i = j
     /\ \A i \in DOMAIN list :
          /\ after[uids[i]].name = list[i].name
          /\ after[uids[i]].nodeId = list[i].nodeId
          /\ after[uids[i]].arrayIndex = list[i].arrayIndex
     \* an entry whose name an existing tag has reuses the tagUid of such a tag
     /\ \A i \in DOMAIN list :
          uids[i] \in DOMAIN before => before[uids[i]].name = list[i].name
     /\ \A i \in DOMAIN list :
          Cardinality({j \in entries(list[i].name) : uids[j] \in DOMAIN before})
            = Least(Cardinality(entries(list[i].name)), Cardinality(named(list[i].name)))
     \* a new entry gets a tagUid above every existing one
     /\ \A i \in DOMAIN list :
          uids[i] \notin DOMAIN before => \A u \in DOMAIN before : uids[i] > u

C29_Step ==
  ev'.browse.outcome = "populated" =>
    LET d == ev'.browse.dev
    IN MergeIsExact(deviceTags[d], ev'.browse.list, deviceTags'[d],
                    populateMerge(deviceTags[d], ev'.browse.list).uids)

\* C29: when a browse ends with populateDevice, device.tags holds exactly one tag
\* per discovered entry and no other: an entry whose name an existing tag has
\* reuses the tagUid of such a tag, a new entry gets a tagUid above every existing
\* one and different from all others, and the existing tags no entry took are
\* deleted.
C29_MergeLeavesOneTagPerEntry == [][C29_Step]_vars

(***************************************************************************)
(* C30                                                                     *)
(***************************************************************************)
\* the references below refs in depth-first order, each with the path of
\* display names that leads to it: a reference, its descendants, its next sibling
RECURSIVE DepthFirst(_, _, _)
DepthFirst(space, refs, folder) ==
  IF refs = <<>> THEN <<>>
  ELSE LET path == Append(folder, Head(refs).displayName)
       IN <<[ref |-> Head(refs), path |-> path]>>
            \o DepthFirst(space, space[Head(refs).nodeId], path)
            \o DepthFirst(space, Tail(refs), folder)

\* the entries of one visited reference: none for other node classes and for a
\* failed read, one per index 0..n-1 for a one-dimensional array of n elements,
\* otherwise one with arrayIndex -1
EntriesOf(visit, failedReads) ==
  IF visit.ref.nodeClass \notin {"Variable", "Object"} \/ visit.ref.nodeId \in failedReads
  THEN <<>>
  ELSE IF visit.ref.arrayType = 1
  THEN [i \in 1..visit.ref.parts |->
          [name |-> TagName(visit.path, i - 1), nodeId |-> visit.ref.nodeId,
           type |-> visit.ref.dataType, arrayIndex |-> i - 1]]
  ELSE <<[name |-> TagName(visit.path, -1), nodeId |-> visit.ref.nodeId,
          type |-> visit.ref.dataType, arrayIndex |-> -1]>>

RECURSIVE Flat(_, _)
Flat(visits, failedReads) ==
  IF visits = <<>> THEN <<>>
  ELSE EntriesOf(Head(visits), failedReads) \o Flat(Tail(visits), failedReads)

C30_OrderStep ==
  (ev'.browse.outcome = "populated" /\ ev'.browse.session # 0) =>
    \E failedReads \in FailedReads :
      ev'.browse.list = Flat(DepthFirst(addressSpace, addressSpace["RootFolder"], <<>>), failedReads)

C30_GoesOnStep == ev'.browse.outcome # "hung"

\* C30: the browse of a finite tree ends and returns the flat list in depth-first
\* insertion order: for every Variable or Object reference one entry with
\* arrayIndex -1, or one entry per index of a one-dimensional array; the failure
\* of the read or of the browse of one node does not stop the traversal.
C30_BrowseReturnsDepthFirstList == [][C30_OrderStep /\ C30_GoesOnStep]_vars

(***************************************************************************)
(* C31                                                                     *)
(***************************************************************************)
\* the step delivers a data change of a node that has no NodeRecord under the key of
\* the tag it was monitored for: the Connection Record is gone, or it is a later
\* record that has not registered the node
LateChange ==
  /\ ev'.change.node # NoNode
  /\ LET rec == connections[<<ev'.change.url, ev'.change.dev>>]
     IN ~Exists(rec) \/ ~rec.ns[ev'.change.node].present

\* C31: a data-change notification for a node whose NodeRecord or Connection Record
\* no longer exists is dropped: no Connection Record is created or changed, nothing
\* is handed to subscribeHandler or sent to the supervisor, and nothing is thrown.
C31_Step ==
  LateChange =>
    /\ connections' = connections
    /\ ~ev'.pump.called
    /\ ev'.change.assigned = <<>>
    /\ accumBuffer' = accumBuffer
    /\ accumTimer' = accumTimer
    /\ ev'.frames = {}
    /\ ev'.reply = NoReply
    /\ ~ev'.thrown

C31_LateNotificationIsDropped == [][C31_Step]_vars

\* a notification arrived for a removed record, and one for a node that the record
\* created afterwards for the device has not registered
C31_NotificationAfterRecordRemoved ==
  /\ ev.change.node # NoNode
  /\ ~Exists(connections[<<ev.change.url, ev.change.dev>>])
  /\ \E c \in DOMAIN clients : ev.change.node \in clients[c].items

C31_NotificationForUnregisteredNode ==
  /\ ev.change.node # NoNode
  /\ Exists(connections[<<ev.change.url, ev.change.dev>>])
  /\ ~connections[<<ev.change.url, ev.change.dev>>].ns[ev.change.node].present

(***************************************************************************)
(* C32                                                                     *)
(***************************************************************************)
\* the names of the entries of the changed node's fan-out list whose subscribed flag is set
SubscribedInFanOut ==
  {ChangedRecord.objs[FanOut[i]].name :
     i \in {j \in DOMAIN FanOut : ChangedRecord.objs[FanOut[j]].subscribed}}

\* C32: response calls subscribeHandler only with a non-empty values map; the map
\* holds exactly the tags of the changed node's fan-out list whose subscribed flag
\* is true, each with the raw value projected for that tag, and a change that
\* touches no subscribed tag calls nothing.
C32_PumpSendsExactlySubscribedTags ==
  ev.change.node # NoNode =>
    /\ ev.pump.called <=> SubscribedInFanOut # {}
    /\ BucketKeys(ev.pump.values) = SubscribedInFanOut
    /\ \A k \in SubscribedInFanOut :
         \E i \in DOMAIN FanOut :
           LET tag == ChangedRecord.objs[FanOut[i]]
           IN tag.name = k /\ tag.subscribed
              /\ ev.pump.values[k] = getValueByIndex(tag, ev.change.raw)
    /\ ~ev.pump.called => ev.frames = {}

\* a node with two tags of which only a0 is subscribed changes: the map holds a0 alone
C32_OneOfTwoTagsSent ==
  /\ ev.change.node = "n1"
  /\ Len(FanOut) = 2
  /\ SubscribedInFanOut = {"a0"}
  /\ ev.pump.called
  /\ BucketKeys(ev.pump.values) = {"a0"}

\* a node whose only tag is not subscribed changes: subscribeHandler is not called
C32_UnsubscribedChangeSendsNothing ==
  /\ ev.change.node = "n2"
  /\ Len(FanOut) = 1
  /\ ~ev.pump.called

(***************************************************************************)
(* C33                                                                     *)
(***************************************************************************)
Pending(buffer, d) == BucketKeys(buffer[d])

\* the step hands a values map to subscribeHandler: every value of the map is the
\* pending value of its (deviceUid, tagName) afterwards, the other pending values
\* stay, and the window is open
C33_HandStep ==
  ev'.pump.called =>
    /\ accumTimer'
    /\ \A d \in Devices, k \in AllKeys :
         accumBuffer'[d][k] = IF d = ev'.pump.dev /\ ev'.pump.values[k] # Absent
                              THEN ev'.pump.values[k]
                              ELSE accumBuffer[d][k]

\* the same for the maps that hold one tag
C33_HandStepOneTag ==
  (ev'.pump.called /\ Cardinality(BucketKeys(ev'.pump.values)) = 1) => C33_HandStep

\* the window ends: one frame per device that has pending updates, holding them all,
\* and nothing is pending afterwards; no other step sends a frame
C33_EmitStep ==
  /\ (accumTimer /\ ~accumTimer') =>
       /\ ev'.frames = {[dev |-> d, values |-> accumBuffer[d]] :
                          d \in {x \in Devices : Pending(accumBuffer, x) # {}}}
       /\ \A f, g \in ev'.frames : f.dev = g.dev => f = g
       /\ \A d \in Devices : Pending(accumBuffer', d) = {}
  /\ ~(accumTimer /\ ~accumTimer') => ev'.frames = {}

\* an update is pending only while a window is open
C33_PendingOnlyInWindow ==
  (\E d \in Devices : Pending(accumBuffer, d) # {}) => accumTimer

\* C33: within one batching window the batcher keeps the latest value handed to it
\* per (deviceUid, tagName); when the window ends it emits one asyncTagsValues frame
\* per deviceUid that holds all updates pending for the device, and no update is
\* pending after the emission.
C33_BatcherKeepsLatestAndEmitsAll ==
  []C33_PendingOnlyInWindow /\ [][C33_HandStep /\ C33_EmitStep]_vars

\* what holds of the code: the same with the maps of one tag only
C33_OneTagMapsAreBatched ==
  []C33_PendingOnlyInWindow /\ [][C33_HandStepOneTag /\ C33_EmitStep]_vars

\* a window ended with a frame for either device, D1's holding the later of two values
C33_TwoFramesLatestValue ==
  /\ Cardinality(ev.frames) = 2
  /\ \E f \in ev.frames : f.dev = "D1" /\ f.values["a0"] = Num(2)
  /\ notifLeft = 0

(***************************************************************************)
(* C34                                                                     *)
(***************************************************************************)
\* the TagRecords of a record: those stored in tags and those held by a fan-out list
InTags(rec) == {rec.tags[k] : k \in {x \in AllKeys : Registered(rec, x)}}
InLists(rec) == UNION {SeqToSet(rec.ns[n].tags) : n \in NodeIds}

\* the subscribed flag of each of the TagRecords objs of rec says whether the name
\* of the TagRecord is in the subscription list subs
FlagsFollow(rec, os, subs) ==
  \A o \in os : rec.objs[o].subscribed <=> rec.objs[o].name \in subs

\* the step processed a setTagsSubscribe request for a configured device
SubscribeProcessed == ev'.req = "setTagsSubscribe" /\ ev'.dev \in Devices

\* C34: after a setTagsSubscribe request has been processed, every TagRecord in the
\* device's registry (stored in tags or held by a fan-out list) has subscribed = true
\* iff its tag is in the subscription list of the request, also when that list is empty.
C34_Step ==
  SubscribeProcessed =>
    LET rec == RecordAt(connections', endpointUrl'[ev'.dev], ev'.dev)
    IN FlagsFollow(rec, InTags(rec) \cup InLists(rec), cfgSub'[ev'.dev])

C34_RuntimeFlagFollowsConfigFlag == [][C34_Step]_vars

\* what holds of the code: the TagRecords stored in tags follow the list, at every moment
C34_TagsMapFollowsConfigFlag ==
  \A d \in Devices : FlagsFollow(TheRecord(d), InTags(TheRecord(d)), cfgSub[d])

\* a subscription was emptied while a subscribed tag was registered
C34_EmptyListClearsFlag ==
  /\ ev.req = "setTagsSubscribe"
  /\ cfgSub["D1"] = {}
  /\ \E k \in AllKeys : Registered(TheRecord("D1"), k)
  /\ ev.had

(***************************************************************************)
(* C35                                                                     *)
(***************************************************************************)
\* createSession, or createSubscription2, of client c resolves in the step
SessionCompletes(c) == clients[c].sess = "none" /\ clients'[c].sess = "open"
SubscriptionCompletes(c) == clients[c].sub = "none" /\ clients'[c].sub = "active"

\* the Connection Record created with client c has been destroyed: under its key
\* there is no record, or the record of a later client
RecordDestroyed(c) == connections[<<clients[c].url, clients[c].dev>>].client # c

\* C35: a completion of createSession or createSubscription2 that arrives after the
\* Connection Record of its client was destroyed is discarded: it writes no session
\* and no subscription into any Connection Record, does not mark the client
\* connected and does not report success to the caller that waits for the connection.
C35_Step ==
  \A c \in DOMAIN clients :
    ((SessionCompletes(c) \/ SubscriptionCompletes(c)) /\ RecordDestroyed(c)) =>
      /\ \A k \in Keys :
           /\ connections'[k].session = c => connections[k].session = c
           /\ connections'[k].subscription = c => connections[k].subscription = c
      /\ ~clients'[c].connected
      /\ clients[c].promise = "pending" => clients'[c].promise # "resolved"
      /\ ev'.reply # NoReply => ev'.reply.error # ""

C35_LateCompletionIsDiscarded == [][C35_Step]_vars

\* the parts of C35, one by one
C35_NoWriteStep ==
  \A c \in DOMAIN clients :
    ((SessionCompletes(c) \/ SubscriptionCompletes(c)) /\ RecordDestroyed(c)) =>
      \A k \in Keys :
        /\ connections'[k].session = c => connections[k].session = c
        /\ connections'[k].subscription = c => connections[k].subscription = c
C35_NoWrite == [][C35_NoWriteStep]_vars

C35_NoRecordNoWriteStep ==
  \A c \in DOMAIN clients :
    ((SessionCompletes(c) \/ SubscriptionCompletes(c))
       /\ ~Exists(connections[<<clients[c].url, clients[c].dev>>])) =>
      connections' = connections
C35_NoRecordNoWrite == [][C35_NoRecordNoWriteStep]_vars

C35_NotConnectedStep ==
  \A c \in DOMAIN clients :
    (SubscriptionCompletes(c) /\ RecordDestroyed(c)) => ~clients'[c].connected
C35_NotConnected == [][C35_NotConnectedStep]_vars

(***************************************************************************)
(* C36                                                                     *)
(***************************************************************************)
\* C36: the finally block of a destroy started for a client removes a Connection
\* Record only if the record still belongs to that client; a destroy that completes
\* late never removes the record that a later request created for a new client.
C36_Step ==
  \A k \in ev'.removed : connections[k].client = ev'.finished.client

C36_DestroyRemovesOwnRecordOnly == [][C36_Step]_vars

\* what holds of the code: a record is removed only by the finally block of a destroy
\* chain, under the key of the chain's client
C36_RemovedUnderOwnKeyStep ==
  \A k \in ev'.removed :
    /\ ev'.finished.client # 0
    /\ k = <<clients[ev'.finished.client].url, clients[ev'.finished.client].dev>>

C36_RemovedUnderOwnKey == [][C36_RemovedUnderOwnKeyStep]_vars

(***************************************************************************)
(* C37                                                                     *)
(***************************************************************************)
\* the clients the step creates
CreatedClients == (Len(clients) + 1)..Len(clients')

\* createConnect runs only for a key without a Connection Record, and a record that
\* exists keeps its client until it is removed
C37_Step ==
  /\ \A c \in CreatedClients : ~Exists(connections[<<clients'[c].url, clients'[c].dev>>])
  /\ \A k \in Keys :
       (Exists(connections[k]) /\ Exists(connections'[k])) =>
         connections'[k].client = connections[k].client

\* a client is live from OPCUAClient.create until its client.disconnect() has resolved
Live(c) == ~clients[c].disc

\* a Connection Record holds the only live client of its device
C37_OneLiveClient ==
  \A k \in Keys :
    Exists(connections[k]) =>
      \A c \in DOMAIN clients :
        (Live(c) /\ <<clients[c].url, clients[c].dev>> = k) => c = connections[k].client

\* C37: a new OPC UA client is created for a device only when no Connection Record
\* exists for its (endpointUrl, deviceUid), also not one that is still connecting: no
\* ping, read, write, subscribe update or browse overwrites an existing record, and
\* at most one client per device is live.
C37_ClientCreatedOnlyWithoutRecord == []C37_OneLiveClient /\ [][C37_Step]_vars

\* what holds of the code: the same for the steps that are not a getTags request
C37_StepButBrowse == ev'.req # "getTags" => C37_Step

C37_NoOverwriteButBrowse == [][C37_StepButBrowse]_vars

(***************************************************************************)
(* C38                                                                     *)
(***************************************************************************)
\* the step issues the session.write calls of a setTagsValues request without tag error
IssuesWrites == ev'.req = "setTagsValues" /\ ev'.writes # <<>> /\ ev'.reply = NoReply

\* the values the server holds when the writes of the step have all succeeded, given
\* that it held the last published values before
HeldAfterWrites ==
  serverAfter([n \in NodeIds |->
                 connections[<<UrlOf(ev'.dev), ev'.dev>>].ns[n].originalValue],
              ev'.writes)

\* C38: when the writes of one setTagsValues request to array elements of a node
\* all succeed, the array the server finally holds contains the new element of each
\* of them: no write puts the stale copy of an element over another write's element.
C38_Step ==
  IssuesWrites =>
    \A i \in ArrayWrites(ev') :
      LET w == ev'.writes[i]
          tag == CfgTag(w.dev, w.name)
          held == HeldAfterWrites[w.nodeId]
      IN /\ held.t = "array"
         /\ tag.arrayIndex < Len(held.a)
         /\ held.a[tag.arrayIndex + 1] = getOneSetValue([type |-> tag.type, setValue |-> w.setValue])

C38_BothArrayElementsWritten == [][C38_Step]_vars

\* what holds of the code: the same for the requests that write one element of a node
C38_StepOneElement ==
  (\A i, j \in ArrayWrites(ev') : ev'.writes[i].nodeId = ev'.writes[j].nodeId => i = j)
    => C38_Step

C38_OneElementWritten == [][C38_StepOneElement]_vars

\* a0 := 5 and a1 := 2 were issued in one request over the published array [0, 2]
C38_TwoElementsIssued ==
  /\ ev.req = "setTagsValues"
  /\ Len(ev.writes) = 2
  /\ ev.writes[1].value = Arr(<<Num(5), Num(2)>>)
  /\ ev.writes[2].value = Arr(<<Num(0), Bool(TRUE)>>)

(***************************************************************************)
(* C39                                                                     *)
(***************************************************************************)
\* the step answers a setTagsValues request with a tag error
AnsweredWithTagError ==
  ev'.reply.cmd = "setTagsValues" /\ ev'.reply.dev \in Devices /\ ev'.reply.error \in TagErrorTexts

C39_Step == AnsweredWithTagError => ev'.writes = <<>>

\* C39: a setTagsValues request that is answered with a tag error (tag not found,
\* tag not writeable, config error) has issued no session.write for any of its tags.
C39_RejectedRequestWritesNothing == [][C39_Step]_vars

\* what holds of the code: the request issues a session.write for each of its tags
\* without a tag error, in request order, and for no other tag
C39_WritesStep ==
  AnsweredWithTagError =>
    LET tags == deviceTagsToArray("write", ev'.reply.dev, ev'.reply.asked, FALSE, cfgSub[ev'.reply.dev])
        good == SelectSeq(tags, LAMBDA t : t.err = "")
    IN /\ Len(ev'.writes) = Len(good)
       /\ \A i \in DOMAIN good : ev'.writes[i].name = good[i].name

C39_RejectedRequestWritesItsGoodTags == [][C39_WritesStep]_vars

\* the request [s := 0, ro := 2] is answered 'tag not writeable' and s is written
C39_WriteIssuedByRejectedRequest ==
  /\ ev.reply.cmd = "setTagsValues"
  /\ ev.reply.error = errTagNotWriteableTxt
  /\ Len(ev.writes) = 1
  /\ ev.writes[1].name = "s"

(***************************************************************************)
(* C40                                                                     *)
(***************************************************************************)
\* how often the TagRecord o occurs in the fan-out list
Occurrences(list, o) == Cardinality({i \in DOMAIN list : list[i] = o})

\* tags and the fan-out lists of the record hold the same TagRecords
TagsAndListsAgree(rec) ==
  /\ \A o \in InTags(rec) : Occurrences(rec.ns[rec.objs[o].nodeId].tags, o) = 1
  /\ \A n \in NodeIds : \A i \in DOMAIN rec.ns[n].tags :
       LET o == rec.ns[n].tags[i]
       IN Registered(rec, rec.objs[o].name) /\ rec.tags[rec.objs[o].name] = o

\* no fan-out list of the record holds two TagRecords of one name
NamesOnceInLists(rec) ==
  \A n \in NodeIds : \A i, j \in DOMAIN rec.ns[n].tags :
    rec.objs[rec.ns[n].tags[i]].name = rec.objs[rec.ns[n].tags[j]].name => i = j

\* C40: in every Connection Record each TagRecord stored in tags occurs exactly once
\* in the fan-out list of its node, each entry of a fan-out list is the TagRecord
\* stored in tags under its name, and no tag name occurs twice in a list, also after
\* a request that names a tag twice.
C40_TagsAndFanOutListsAgree ==
  \A k \in Keys : Exists(connections[k]) =>
    TagsAndListsAgree(connections[k]) /\ NamesOnceInLists(connections[k])

\* what holds of the code: a TagRecord stored in tags occurs exactly once in the list
\* of its node
C40_TagsOnceInOwnList ==
  \A k \in Keys : Exists(connections[k]) =>
    \A o \in InTags(connections[k]) :
      Occurrences(connections[k].ns[connections[k].objs[o].nodeId].tags, o) = 1

\* the read of [s, s] left two TagRecords named s in the fan-out list of its node
C40_NameTwiceInList ==
  \E k \in Keys : Exists(connections[k]) /\ ~NamesOnceInLists(connections[k])

====
